---- MODULE Spec2Model ----
(***************************************************************************)
(* Model of the legislative-amendment navigator of apply-pjl-code.         *)
(*                                                                         *)
(* src/chat-history/article-navigator.ts holds two successive versions of  *)
(* the navigator:                                                          *)
(*   - lines 1-324: ArticleNavigator over cheerio ("cheerio" below), whose *)
(*     locate() takes a reference AST, flattens it (extractNavigationPath, *)
(*     walkReference, referenceToStep) and walks the <p> blocks;           *)
(*   - lines 326-808: the prototype over the DOM ("dom" below), with       *)
(*     convertAstToNavigationPath / walkReference and an ArticleNavigator  *)
(*     whose locate() takes an already compiled NavigationPath.            *)
(*                                                                         *)
(* Conventions                                                             *)
(*   - a JavaScript string is a sequence of one-character strings; the     *)
(*     module is kept in ASCII: "alinea" stands for the tag 'alinéa' and   *)
(*     the one-character token "deg" for the degree sign of "1°";          *)
(*   - an optional number is <<>> (undefined) or <<n>>;                    *)
(*   - an optional string is its characters, <<>> standing for undefined   *)
(*     and for '' (both falsy, and the code only tests truthiness);        *)
(*   - a function that may throw returns Ok(value) or Throw(error).        *)
(***************************************************************************)
EXTENDS Integers, Sequences, FiniteSets, TLC

VARIABLES
    impl,      \* which version of the code runs: "cheerio" or "dom"
    ref,       \* the reference AST handed to the path compiler
    compiled,  \* result of the path compiler: <<>> before the call
    console,   \* messages written by console.warn during the compilation
    doc,       \* the article: its <p> blocks in document order
    pc,        \* position of locate(): "idle", "nav", "done", "thrown";
               \* "failed" when the constructor threw and there is no navigator
    path,      \* the NavigationStep[] being walked by locate()
    i,         \* index in path of the next step of the for-loop
    scope,     \* current scope: a selection (sequence) of block indices
    result,    \* value returned by locate(): <<>> before the return
    error,     \* the Error thrown by the constructor or by locate(): <<>> if none
    history,   \* the calls of locate() that returned: input and outcome
    rawText,   \* the text handed to parseModification
    items,     \* the <li> blocks of the project handed to the batch extraction
    blocks,    \* the ModificationBlock[] built by the batch extraction
    calls      \* the parsers called by parseModification, in call order; the
               \* results of the members of the chain of `modification`

vars ==
    <<impl, ref, compiled, console, doc, pc, path, i, scope, result, error,
      history, rawText, items, blocks, calls>>

----------------------------------------------------------------------------
(* Results of functions that may throw *)

Ok(v) == [threw |-> FALSE, value |-> v]

Throw(e) == [threw |-> TRUE, error |-> e]

\* A throw after messages were written by console.warn
ThrowAfter(e, warns) == [threw |-> TRUE, error |-> e, warns |-> warns]

----------------------------------------------------------------------------
(* Strings *)

startsWith(text, pattern) ==
    /\ Len(pattern) <= Len(text)
    /\ SubSeq(text, 1, Len(pattern)) = pattern

\* White space of JavaScript (trim, \s): space, line feed, tab, carriage
\* return, form feed, vertical tab, no-break space, U+FEFF and U+1680 (the
\* other space separators of Unicode, U+2000 and above, are not characters
\* of a string of this module)
isSpace(c) == c \in {" ", "\n", "\t", "\r", "\f", "", " ", "﻿", " "}

\* String.prototype.trim: drop leading and trailing white space
trim(text) ==
    LET keep == {k \in 1..Len(text) : ~isSpace(text[k])}
    IN  IF keep = {} THEN <<>>
        ELSE LET lo == CHOOSE k \in keep : \A m \in keep : k <= m
                 hi == CHOOSE k \in keep : \A m \in keep : m <= k
             IN  SubSeq(text, lo, hi)

----------------------------------------------------------------------------
(* Reference AST (types of '../text_parsers/ast.js' as the code reads them) *)

DivisionTypes ==
    {"partie", "livre", "titre", "sous-titre", "chapitre", "section",
     "sous-section", "paragraphe", "sous-paragraphe", "sous-sous-paragraphe"}

PortionTypes == {"alinea", "phrase"}

EnumerationTypes == {"enumeration", "bounded-interval", "counted-interval"}

AtomicTypes == {"texte", "article", "item"} \cup DivisionTypes \cup PortionTypes

\* An atomic node: the fields the two compilers read (cid, num, index,
\* relative); a field the parser did not set is undefined.
Atom(type, cid, num, index, relative) ==
    [type |-> type, cid |-> cid, num |-> num, index |-> index, relative |-> relative]

ParentChild(parent, child) ==
    [type |-> "parent-enfant", parent |-> parent, child |-> child]

Enumeration(left, right) ==
    [type |-> "enumeration", left |-> left, right |-> right]

BoundedInterval(first, last) ==
    [type |-> "bounded-interval", first |-> first, last |-> last]

CountedInterval(first, count) ==
    [type |-> "counted-interval", first |-> first, count |-> count]

----------------------------------------------------------------------------
(* Path compiler, cheerio version: ArticleNavigator.extractNavigationPath  *)

\* Steps are compiled together with the position, in the reference tree, of
\* the node they were compiled from (at: the sequence of field names leading
\* from the root to the node). The position is bookkeeping of the model; the
\* NavigationStep itself is the field step.
Tagged(at, step) == [at |-> at, step |-> step]

referenceToStep(r) ==
    CASE r.type = "texte" ->
            Ok([type |-> "texte", cid |-> r.cid])
      [] r.type = "article" ->
            Ok([type |-> "article", num |-> r.num])
      [] r.type \in {"item"} \cup DivisionTypes ->
            Ok([type |-> "division", divisionType |-> r.type,
                num |-> r.num, index |-> r.index])
      [] r.type \in PortionTypes ->
            Ok([type |-> "portion", portionType |-> r.type,
                index |-> r.index, num |-> r.num])
      [] OTHER ->
            Throw([message |-> "Unsupported reference type", type |-> r.type])

RECURSIVE walkReference_cheerio(_, _, _)

\* Mutant: the child (finer) subtree is walked before the parent
walkReference_cheerio_childFirst(r, acc, at) ==
    IF r.type = "parent-enfant"
    THEN LET c == walkReference_cheerio(r.child, acc, Append(at, "child"))
         IN  IF c.threw THEN c
             ELSE walkReference_cheerio(r.parent, c.value, Append(at, "parent"))
    ELSE LET s == referenceToStep(r)
         IN  IF s.threw THEN s ELSE Ok(Append(acc, Tagged(at, s.value)))

\* walkReference(ref, path): the path after the walk of ref, or the throw
walkReference_cheerio(r, acc, at) ==
    IF r.type = "parent-enfant"
    THEN LET p == walkReference_cheerio(r.parent, acc, Append(at, "parent"))
         IN  IF p.threw THEN p
             ELSE walkReference_cheerio(r.child, p.value, Append(at, "child"))
    ELSE LET s == referenceToStep(r)
         IN  IF s.threw THEN s ELSE Ok(Append(acc, Tagged(at, s.value)))

extractNavigationPath(r) == walkReference_cheerio(r, <<>>, <<>>)

----------------------------------------------------------------------------
(* Path compiler, DOM version: convertAstToNavigationPath                  *)

\* The accumulator of the DOM walk: the steps pushed so far and the
\* console.warn messages written so far.
Acc(steps, warns) == [steps |-> steps, warns |-> warns]

\* Mutant: the last member of the enumeration or interval is taken
firstMember_last(r) ==
    IF "right" \in DOMAIN r THEN <<[field |-> "right", node |-> r.right]>>
    ELSE IF "last" \in DOMAIN r THEN <<[field |-> "last", node |-> r.last]>>
    ELSE IF "first" \in DOMAIN r THEN <<[field |-> "first", node |-> r.first]>>
    ELSE <<>>

\* ref.left || ref.first: the member (with the name of the field it was read
\* from), or <<>> when both fields are undefined
firstMember(r) ==
    IF "left" \in DOMAIN r THEN <<[field |-> "left", node |-> r.left]>>
    ELSE IF "first" \in DOMAIN r THEN <<[field |-> "first", node |-> r.first]>>
    ELSE <<>>

RECURSIVE walkReference_dom(_, _, _)

\* walkReference(ref, steps): the steps (and warnings) after the walk of ref,
\* or the TypeError of walkReference(undefined) with the warnings written
\* before it
walkReference_dom(r, acc, at) ==
    CASE r.type = "article" ->
            Ok(Acc(Append(acc.steps,
                          Tagged(at, [type |-> "article", identifier |-> r.num,
                                      relative |-> r.relative])),
                   acc.warns))
      [] r.type \in DivisionTypes ->
            Ok(Acc(Append(acc.steps,
                          Tagged(at, [type |-> "division", identifier |-> r.num,
                                      relative |-> r.relative])),
                   acc.warns))
      [] r.type \in PortionTypes \cup {"item"} ->
            Ok(Acc(Append(acc.steps,
                          Tagged(at, [type |-> "portion", identifier |-> r.num,
                                      relative |-> r.relative])),
                   acc.warns))
      [] r.type = "parent-enfant" ->
            LET p == walkReference_dom(r.parent, acc, Append(at, "parent"))
            IN  IF p.threw THEN p
                ELSE walkReference_dom(r.child, p.value, Append(at, "child"))
      [] r.type \in EnumerationTypes ->
            LET m == firstMember(r)
            IN  IF m = <<>>
                THEN ThrowAfter([message |-> "TypeError", type |-> r.type], acc.warns)
                ELSE walkReference_dom(m[1].node, acc, Append(at, m[1].field))
      [] r.type = "reference_et_action" ->
            walkReference_dom(r.reference, acc, Append(at, "reference"))
      [] OTHER ->
            Ok(Acc(acc.steps,
                   Append(acc.warns, [message |-> "Unhandled reference type",
                                      type |-> r.type])))

\* The NavigationPath { steps } of a reference (steps still tagged), with the
\* warnings written to the console on the way
convertAstToNavigationPath(r) == walkReference_dom(r, Acc(<<>>, <<>>), <<>>)

\* The steps of a compiled path without the model's position tags
Untag(tagged) == [k \in 1..Len(tagged) |-> tagged[k].step]

----------------------------------------------------------------------------
(* Inputs of the path compiler *)

CGI == <<"C", "G", "I">>

Dernier == <<"d", "e", "r", "n", "i", "e", "r">>

\* The atomic nodes of "La seconde phrase du dernier alinea du II de
\* l'article 224 du CGI" (prochaines-etapes.md) and a chapter
TexteCGI == Atom("texte", CGI, <<>>, <<>>, <<>>)

Article224 == Atom("article", <<>>, <<"2", "2", "4">>, <<>>, <<>>)

ChapitreI == Atom("chapitre", <<>>, <<"I">>, <<1>>, <<>>)

ItemII == Atom("item", <<>>, <<"I", "I">>, <<2>>, <<>>)

AlineaDernier == Atom("alinea", <<>>, Dernier, <<-1>>, <<>>)

PhraseSeconde == Atom("phrase", <<>>, <<>>, <<2>>, <<>>)

CompileAtoms ==
    {TexteCGI, Article224, ChapitreI, ItemII, AlineaDernier, PhraseSeconde}

\* The atomic nodes used at the leaves of the larger trees
CoreAtoms == {TexteCGI, ItemII, AlineaDernier}

\* Largest number of atomic nodes of a reference tree
MaxLeaves == 3

\* The count of a counted interval ("les deux alineas suivants")
IntervalCount == 2

\* Parent-child and enumeration trees with exactly n atomic nodes
RECURSIVE RefsOfSize(_)
RefsOfSize(n) ==
    IF n = 1
    THEN CoreAtoms
    ELSE UNION {
            LET L == RefsOfSize(k)
                R == RefsOfSize(n - k)
            IN  {ParentChild(l, r) : l \in L, r \in R}
                \cup {Enumeration(l, r) : l \in L, r \in R}
            : k \in 1..(n - 1)}

\* Intervals over atomic nodes, alone and as parent or child
IntervalRefs ==
    LET I == {BoundedInterval(a, b) : a, b \in CompileAtoms}
             \cup {CountedInterval(a, IntervalCount) : a \in CompileAtoms}
    IN  I \cup {ParentChild(x, a) : x \in I, a \in CoreAtoms}
          \cup {ParentChild(a, x) : x \in I, a \in CoreAtoms}

\* A reference with its action, as the parser `reference` returns it
ReferenceAndAction(r, a) ==
    [type |-> "reference_et_action", reference |-> r, action |-> [action |-> a]]

WithAction == ReferenceAndAction(ParentChild(ItemII, AlineaDernier), "MODIFICATION")

CompileRefs ==
    CompileAtoms
    \cup {ParentChild(a, b) : a, b \in CompileAtoms}
    \cup UNION {RefsOfSize(n) : n \in 1..MaxLeaves}
    \cup IntervalRefs

----------------------------------------------------------------------------
(* The path compiler as a state machine: one call per behaviour *)

Impls == {"cheerio", "dom"}

\* Values of the variables that the compiler does not use
NoDoc == <<>>

InitCompile ==
    /\ impl \in Impls
    /\ ref \in CompileRefs \cup {WithAction}
    /\ compiled = <<>>
    /\ console = <<>>
    /\ doc = NoDoc
    /\ pc = "compile"
    /\ path = <<>>
    /\ i = 0
    /\ scope = <<>>
    /\ result = <<>>
    /\ error = <<>>
    /\ history = <<>>
    /\ rawText = <<>>
    /\ items = <<>>
    /\ blocks = <<>>
    /\ calls = <<>>

\* locate(reference) of the cheerio version up to the end of
\* extractNavigationPath: the path, or the error thrown by referenceToStep;
\* of a reference with its action, the reference alone is compiled (the
\* steps are then tagged from the field `reference`)
Compile_cheerio ==
    /\ pc = "compile"
    /\ impl = "cheerio"
    /\ LET c == IF ref.type = "reference_et_action"
                THEN walkReference_cheerio(ref.reference, <<>>, <<"reference">>)
                ELSE extractNavigationPath(ref)
       IN  /\ compiled' = <<c>>
           /\ pc' = IF c.threw THEN "thrown" ELSE "compiled"
    /\ UNCHANGED <<history, rawText, items, blocks, calls>>
    /\ UNCHANGED <<impl, ref, console, doc, path, i, scope, result, error>>

\* convertAstToNavigationPath(reference) of the DOM version
Compile_dom ==
    /\ pc = "compile"
    /\ impl = "dom"
    /\ LET c == convertAstToNavigationPath(ref)
       IN  /\ compiled' = <<IF c.threw THEN c ELSE Ok([steps |-> c.value.steps])>>
           /\ console' = IF c.threw THEN c.warns ELSE c.value.warns
           /\ pc' = IF c.threw THEN "thrown" ELSE "compiled"
    /\ UNCHANGED <<history, rawText, items, blocks, calls>>
    /\ UNCHANGED <<impl, ref, doc, path, i, scope, result, error>>

NextCompile == Compile_cheerio \/ Compile_dom

SpecCompile == InitCompile /\ [][NextCompile]_vars

----------------------------------------------------------------------------
(* Properties of the path compiler (checked under SpecCompile) *)

\* The node of the tree r at position at
RECURSIVE NodeAt(_, _)
NodeAt(r, at) == IF at = <<>> THEN r ELSE NodeAt(r[Head(at)], Tail(at))

\* The atomic nodes of r, by position, in the parent-child trees
RECURSIVE AtomPositions(_, _)
AtomPositions(r, at) ==
    IF r.type = "parent-enfant"
    THEN AtomPositions(r.parent, Append(at, "parent"))
         \cup AtomPositions(r.child, Append(at, "child"))
    ELSE IF r.type = "enumeration"
    THEN AtomPositions(r.left, Append(at, "left"))
         \cup AtomPositions(r.right, Append(at, "right"))
    ELSE IF r.type = "bounded-interval"
    THEN AtomPositions(r.first, Append(at, "first"))
         \cup AtomPositions(r.last, Append(at, "last"))
    ELSE IF r.type = "counted-interval"
    THEN AtomPositions(r.first, Append(at, "first"))
    ELSE {at}

\* r is made of parent-child pairs and atomic nodes only
RECURSIVE IsParentChildTree(_)
IsParentChildTree(r) ==
    IF r.type = "parent-enfant"
    THEN IsParentChildTree(r.parent) /\ IsParentChildTree(r.child)
    ELSE r.type \in AtomicTypes

\* The tagged steps of the compiled path (when pc = "compiled")
CompiledSteps ==
    IF impl = "cheerio" THEN compiled[1].value ELSE compiled[1].value.steps

IsPrefix(p, s) == Len(p) <= Len(s) /\ SubSeq(s, 1, Len(p)) = p

\* C1: coarse-to-fine. In every compiled path, and for every parent-child node
\* of the reference tree (at any depth), each step compiled from the node's
\* parent subtree comes before each step compiled from its child subtree.
C1_CoarseToFine ==
    pc = "compiled" =>
        LET t == CompiledSteps
        IN  \A m, n \in 1..Len(t) :
                \A k \in 1..Len(t[m].at) :
                    ( /\ k <= Len(t[n].at)
                      /\ SubSeq(t[m].at, 1, k - 1) = SubSeq(t[n].at, 1, k - 1)
                      /\ t[m].at[k] = "parent"
                      /\ t[n].at[k] = "child" )
                    => m < n

\* C1 witness: a compiled path with steps from both sides of a parent-child
\* node nested in the child of another parent-child node
C1_Witness ==
    /\ pc = "compiled"
    /\ LET t == CompiledSteps
       IN  \E m, n, o \in 1..Len(t) :
               /\ t[m].at = <<"parent">>
               /\ t[n].at = <<"child", "parent">>
               /\ t[o].at = <<"child", "child">>

\* C2 (as claimed): the compilation of a tree of parent-child pairs and atomic
\* nodes ends with a path that holds exactly one step per atomic node: as many
\* steps as atomic nodes, each atomic node being the origin of one step.
C2_PathComplete ==
    (pc \in {"compiled", "thrown"} /\ IsParentChildTree(ref)) =>
        /\ pc = "compiled"
        /\ LET t == CompiledSteps
               A == AtomPositions(ref, <<>>)
           IN  /\ Len(t) = Cardinality(A)
               /\ \A a \in A : Cardinality({m \in 1..Len(t) : t[m].at = a}) = 1

\* The first member of an enumeration or interval node
FirstOf(r) == IF r.type = "enumeration" THEN r.left ELSE r.first

\* The steps, without tags, that the running version compiles from r alone
StepsOf(r) ==
    IF impl = "cheerio"
    THEN LET c == extractNavigationPath(r)
         IN  IF c.threw THEN <<>> ELSE Untag(c.value)
    ELSE LET c == convertAstToNavigationPath(r)
         IN  IF c.threw THEN <<>> ELSE Untag(c.value.steps)

\* C3: whenever an enumeration or interval is compiled, its path is the path
\* compiled from its first member alone, and in any compiled path no step
\* comes from a later member (right, last) of an enumeration or interval.
C3_FirstMemberOnly ==
    pc = "compiled" =>
        LET t == CompiledSteps
        IN  /\ ref.type \in EnumerationTypes =>
                   Untag(t) = StepsOf(FirstOf(ref))
            /\ \A m \in 1..Len(t) : \A k \in 1..Len(t[m].at) :
                   NodeAt(ref, SubSeq(t[m].at, 1, k - 1)).type \in EnumerationTypes
                   => t[m].at[k] \in {"left", "first"}

\* C3 witness: an enumeration or interval whose two members are atomic nodes
\* of different kinds has been compiled to the one step of its first member
C3_Witness ==
    /\ pc = "compiled"
    /\ ref.type \in {"enumeration", "bounded-interval"}
    /\ ref = IF ref.type = "enumeration"
             THEN Enumeration(ItemII, AlineaDernier)
             ELSE BoundedInterval(ChapitreI, AlineaDernier)
    /\ Len(CompiledSteps) = 1

\* The warnings carried by the compiled result (none when it has no such field)
CompiledWarnings ==
    IF impl = "dom" /\ "warnings" \in DOMAIN compiled[1].value
    THEN compiled[1].value.warnings
    ELSE <<>>

\* C4 (as claimed): the compilation of an enumeration or interval does not
\* throw, and its result carries a warning of partial resolution.
C4_PartialResolutionWarned ==
    (pc \in {"compiled", "thrown"} /\ ref.type \in EnumerationTypes) =>
        /\ pc = "compiled"
        /\ CompiledWarnings # <<>>

\* The ordinal a step carries: its index (cheerio NavigationStep) or its
\* ordinal (DOM NavigationStep), undefined when it has neither
StepOrdinal(step) ==
    IF "index" \in DOMAIN step THEN step.index
    ELSE IF "ordinal" \in DOMAIN step THEN step.ordinal
    ELSE <<>>

\* C5 (as claimed): each step compiled from a Portion node is a portion step
\* that carries the node's index unchanged (-1 stays -1, k stays k).
C5_OrdinalCarried ==
    pc = "compiled" =>
        LET t == CompiledSteps
        IN  \A m \in 1..Len(t) :
                LET node == NodeAt(ref, t[m].at)
                IN  node.type \in PortionTypes =>
                        /\ t[m].step.type = "portion"
                        /\ StepOrdinal(t[m].step) = node.index

----------------------------------------------------------------------------
(* The article: the <p> blocks of the HTML handed to new ArticleNavigator  *)

\* A block is a <p> element, child of <body>: its text, and the text node
\* that follows it in <body> (the white space between two blocks of an article
\* written one block per line, empty when the blocks touch).  A parsed article
\* has no <p> inside a <p>, and the parser drops the white space before the
\* first block.  Blocks are listed in document order.
Body == 0

Block(text, tail) == [text |-> text, tail |-> tail]

\* e is b or an ancestor of b (Body is the parent of every block)
IsInside(d, b, e) == b = e \/ (e = Body /\ b \in 1..Len(d))

\* The elements of the set S of block indices, in document order
InOrder(S) ==
    [k \in 1..Cardinality(S) |->
        CHOOSE x \in S : Cardinality({y \in S : y < x}) = k - 1]

\* scope.find('p').toArray() / Array.from(scope.querySelectorAll('p')):
\* the blocks strictly inside an element of the selection, in document order
find_p(d, sel) ==
    InOrder({b \in 1..Len(d) :
                \E k \in 1..Len(sel) : sel[k] # b /\ IsInside(d, b, sel[k])})

\* The text nodes of <body> and of its blocks from the k-th block on
RECURSIVE Concat(_, _)
Concat(d, k) ==
    IF k > Len(d) THEN <<>> ELSE d[k].text \o d[k].tail \o Concat(d, k + 1)

\* textContent of the element e: the text of a block, and for <body> the
\* texts of its blocks with the text nodes between them
textContent(d, e) == IF e = Body THEN Concat(d, 1) ELSE d[e].text

\* cheerio .text() of a selection: the text of its elements, concatenated
RECURSIVE text_cheerio(_, _, _)
text_cheerio(d, sel, k) ==
    IF k > Len(sel) THEN <<>>
    ELSE textContent(d, sel[k]) \o text_cheerio(d, sel, k + 1)

\* The serialisation of a text node: the characters &, <, > and the
\* no-break space are written as the tokens "&amp;", "&lt;", "&gt;", "&nbsp;"
escapeText(text) ==
    [k \in 1..Len(text) |->
        CASE text[k] = "&" -> "&amp;"
          [] text[k] = "<" -> "&lt;"
          [] text[k] = ">" -> "&gt;"
          [] text[k] = " " -> "&nbsp;"
          [] OTHER -> text[k]]

\* The serialisation of the blocks of <body> from the k-th on; the tags are
\* the tokens "<p>" and "</p>"
RECURSIVE serialize(_, _)
serialize(d, k) ==
    IF k > Len(d) THEN <<>>
    ELSE <<"<p>">> \o escapeText(d[k].text) \o <<"</p>">> \o escapeText(d[k].tail)
         \o serialize(d, k + 1)

\* innerHTML of the element e
innerHTML(d, e) == IF e = Body THEN serialize(d, 1) ELSE escapeText(d[e].text)

\* cheerio .html() of a selection: <<the inner HTML of its first element>>,
\* and <<>> (null) for an empty selection
html_cheerio(d, sel) ==
    IF sel = <<>> THEN <<>> ELSE <<innerHTML(d, sel[1])>>

\* array[index] of JavaScript: <<element>>, or <<>> for undefined
at0(array, index) ==
    IF index >= 0 /\ index < Len(array) THEN <<array[index + 1]>> ELSE <<>>

----------------------------------------------------------------------------
(* Document navigator, cheerio version *)

getDivisionPatterns_cheerio(num) ==
    << num \o <<".", "-">>,
       num \o <<".", " ", "-">>,
       num \o <<" ", "-">>,
       num \o <<".">>,
       num \o <<"deg">>,
       num \o <<")">> >>

\* patterns.some(pattern => text.startsWith(pattern))
somePattern(patterns, text) ==
    \E k \in 1..Len(patterns) : startsWith(text, patterns[k])

\* Mutant: the loop keeps the last block that matches
RECURSIVE firstMatch_cheerio_last(_, _, _, _)
firstMatch_cheerio_last(d, paragraphs, patterns, k) ==
    IF k > Len(paragraphs) THEN <<>>
    ELSE LET later == firstMatch_cheerio_last(d, paragraphs, patterns, k + 1)
         IN  IF later # <<>> THEN later
             ELSE IF somePattern(patterns, trim(textContent(d, paragraphs[k])))
             THEN <<paragraphs[k]>>
             ELSE <<>>

\* for (const p of paragraphs) { ... return this.$(p) }: <<the first block,
\* from the k-th on, whose trimmed text starts with a pattern>>, else <<>>
RECURSIVE firstMatch_cheerio(_, _, _, _)
firstMatch_cheerio(d, paragraphs, patterns, k) ==
    IF k > Len(paragraphs) THEN <<>>
    ELSE IF somePattern(patterns, trim(textContent(d, paragraphs[k])))
    THEN <<paragraphs[k]>>
    ELSE firstMatch_cheerio(d, paragraphs, patterns, k + 1)

findDivision_cheerio(d, sel, step) ==
    LET paragraphs == find_p(d, sel)
        found == IF step.num # <<>>
                 THEN firstMatch_cheerio(d, paragraphs,
                                         getDivisionPatterns_cheerio(step.num), 1)
                 ELSE <<>>
    IN  IF found # <<>> THEN Ok(found)
        ELSE IF step.index # <<>> /\ step.index[1] >= 0
        THEN Ok(at0(paragraphs, step.index[1]))
        ELSE Throw([message |-> "Division not found", step |-> step])

\* text.split(/[.!?]\s+/): the pieces between the separators
RECURSIVE split(_, _, _, _)
split(text, k, piece, pieces) ==
    IF k > Len(text) THEN Append(pieces, piece)
    ELSE IF text[k] \in {".", "!", "?"} /\ k < Len(text) /\ isSpace(text[k + 1])
    THEN LET after == {m \in (k + 1)..Len(text) :
                          \A n \in (k + 1)..m : isSpace(text[n])}
             end == CHOOSE m \in after : \A n \in after : n <= m
         IN  split(text, end + 1, <<>>, Append(pieces, piece))
    ELSE split(text, k + 1, Append(piece, text[k]), pieces)

splitSentences(text) ==
    SelectSeq(split(text, 1, <<>>, <<>>), LAMBDA piece : Len(trim(piece)) > 0)

findPortion_cheerio(d, sel, step) ==
    LET paragraphs == find_p(d, sel)
        sentences == splitSentences(text_cheerio(d, sel, 1))
        index == step.index
    IN  IF step.portionType = "alinea" /\ (step.num = Dernier \/ index = <<-1>>)
        THEN Ok(at0(paragraphs, Len(paragraphs) - 1))
        ELSE IF step.portionType = "alinea" /\ index # <<>> /\ index[1] >= 0
        THEN Ok(at0(paragraphs, index[1]))
        ELSE IF step.portionType = "phrase" /\ index # <<>> /\ index[1] >= 0
        THEN LET sentenceIndex == IF index[1] = 0 THEN 0 ELSE index[1] - 1
             IN  IF at0(sentences, sentenceIndex) = <<>>
                 THEN Throw([message |-> "Sentence at index not found",
                             index |-> index[1]])
                 ELSE Ok(sel)
        ELSE Throw([message |-> "Portion not found", step |-> step])

\* One iteration of the for-loop of navigatePath: the scope after the step
navigatePath_step(d, sel, step) ==
    CASE step.type = "texte" -> Ok(sel)
      [] step.type = "article" -> Ok(sel)
      [] step.type = "division" -> findDivision_cheerio(d, sel, step)
      [] step.type = "portion" -> findPortion_cheerio(d, sel, step)
      [] OTHER -> Ok(sel)

\* return scope.html() || ''
navigatePath_return(d, sel) ==
    LET h == html_cheerio(d, sel)
    IN  IF h = <<>> THEN <<>> ELSE h[1]

----------------------------------------------------------------------------
(* Document navigator, DOM version *)

\* The ordinal of a DOM NavigationStep: 'first' | 'last' | 'second' | number,
\* or undefined
Undefined == [kind |-> "undefined"]

Word(w) == [kind |-> "string", word |-> w]

Number(n) == [kind |-> "number", n |-> n]

ordinalOf(step) == IF "ordinal" \in DOMAIN step THEN step.ordinal ELSE Undefined

\* Mutant: the form "II." (marker and dot) is not accepted
getDivisionPatterns_dom_noDot(identifier) ==
    IF identifier = <<>> THEN <<>>
    ELSE << identifier \o <<".", "-">>,
            identifier \o <<".", " ", "-">>,
            identifier \o <<" ", "-">>,
            identifier \o <<"deg">> >>

getDivisionPatterns_dom(identifier) ==
    IF identifier = <<>> THEN <<>>
    ELSE << identifier \o <<".", "-">>,
            identifier \o <<".", " ", "-">>,
            identifier \o <<" ", "-">>,
            identifier \o <<".">>,
            identifier \o <<"deg">> >>

\* for (const p of paragraphs) { ... return p }
RECURSIVE firstMatch_dom(_, _, _, _)
firstMatch_dom(d, paragraphs, patterns, k) ==
    IF k > Len(paragraphs) THEN <<>>
    ELSE IF somePattern(patterns, trim(textContent(d, paragraphs[k])))
    THEN <<paragraphs[k]>>
    ELSE firstMatch_dom(d, paragraphs, patterns, k + 1)

findDivision_dom(d, sel, step) ==
    LET paragraphs == find_p(d, sel)
        found == firstMatch_dom(d, paragraphs,
                                getDivisionPatterns_dom(step.identifier), 1)
    IN  IF found # <<>> THEN Ok(found)
        ELSE Throw([message |-> "Division not found",
                    identifier |-> step.identifier])

findPortion_dom(d, sel, step) ==
    LET paragraphs == find_p(d, sel)
        ordinal == ordinalOf(step)
        relative == IF "relative" \in DOMAIN step THEN step.relative ELSE <<>>
        targetIndex ==
            IF relative # <<>> THEN <<relative[1]>>
            ELSE IF ordinal = Word("last") THEN <<Len(paragraphs) - 1>>
            ELSE IF ordinal = Word("first") THEN <<0>>
            ELSE IF ordinal = Word("second") THEN <<1>>
            ELSE IF ordinal.kind = "number" THEN <<ordinal.n - 1>>
            ELSE <<>>
    IN  IF targetIndex = <<>>
        THEN Throw([message |-> "Invalid portion ordinal"])
        ELSE IF at0(paragraphs, targetIndex[1]) = <<>>
        THEN Throw([message |-> "Portion at index not found",
                    index |-> targetIndex[1]])
        ELSE Ok(at0(paragraphs, targetIndex[1]))

navigateStep(d, sel, step) ==
    CASE step.type = "division" -> findDivision_dom(d, sel, step)
      [] step.type = "portion" -> findPortion_dom(d, sel, step)
      [] step.type = "article" -> Ok(sel)
      [] OTHER -> Throw([message |-> "Unknown step type", type |-> step.type])

----------------------------------------------------------------------------
(* Inputs of the navigator *)

\* Largest number of <p> blocks of an article
MaxBlocks == 3

\* Largest positive ordinal of a portion
MaxOrdinal == 3

\* " I.-a": white space, then the opening of division I
TextI == <<" ", "I", ".", "-", "a">>

\* "II. b": a block that opens division II; it starts with the marker I, but
\* with no surface form of it; it has two sentences
TextII == <<"I", "I", ".", " ", "b">>

\* "a. b": a paragraph of two sentences that opens no division
TextPlain == <<"a", ".", " ", "b">>

\* "a&b.": one sentence that ends its paragraph, with a character that the
\* serialisation escapes; the white space after the paragraph then separates
\* its sentence from the next one in the text of <body>
TextAmp == <<"a", "&", "b", ".">>

BlockTexts == {TextI, TextII, TextPlain, TextAmp}

\* The text between two blocks: none, or the line feed of an article written
\* one block per line
BlockTails == {<<>>, <<"\n">>}

\* The articles: the same text node after each of their blocks
Docs ==
    UNION {[1..n -> {Block(t, tail) : t \in BlockTexts}] :
              n \in 0..MaxBlocks, tail \in BlockTails}

ItemI == Atom("item", <<>>, <<"I">>, <<1>>, <<>>)

ItemIINoIndex == Atom("item", <<>>, <<"I", "I">>, <<>>, <<>>)

NavDivisions == {ItemI, ItemII, ItemIINoIndex}

NavPortions ==
    {AlineaDernier, Atom("phrase", <<>>, Dernier, <<-1>>, <<>>)}
    \cup {Atom(t, <<>>, <<>>, <<k>>, <<>>) : t \in PortionTypes, k \in 1..MaxOrdinal}

\* "La seconde phrase du dernier alinea du II de l'article 224 du CGI"
FullReference ==
    ParentChild(TexteCGI,
        ParentChild(Article224,
            ParentChild(ItemII,
                ParentChild(AlineaDernier, PhraseSeconde))))

\* The references handed to locate() of the cheerio version
NavRefs ==
    {TexteCGI, Article224, FullReference,
     ReferenceAndAction(ParentChild(ItemII, AlineaDernier), "MODIFICATION")}
    \cup NavDivisions
    \cup NavPortions
    \cup {ParentChild(dv, po) : dv \in NavDivisions, po \in NavPortions}

DomStep(type, identifier, ordinal, relative) ==
    [type |-> type, identifier |-> identifier, ordinal |-> ordinal,
     relative |-> relative]

DomDivisions ==
    {DomStep("division", id, Undefined, <<>>) : id \in {<<"I">>, <<"I", "I">>, <<>>}}

DomPortions ==
    {DomStep("portion", <<>>, o, <<>>) :
        o \in {Word("last"), Word("first"), Word("second"), Number(-1)}
              \cup {Number(k) : k \in 1..MaxOrdinal}}
    \cup {DomStep("portion", <<>>, Undefined, <<1>>)}

\* The paths handed to locate() of the DOM version: the paths compiled from
\* the references above, and paths written with the NavigationStep interface
DomPaths ==
    {LET c == convertAstToNavigationPath(r)
     IN  IF c.threw THEN <<>> ELSE Untag(c.value.steps) : r \in NavRefs}
    \cup {<<DomStep("article", <<"2", "2", "4">>, Undefined, <<>>)>>}
    \cup {<<dv>> : dv \in DomDivisions}
    \cup {<<po>> : po \in DomPortions}
    \cup {<<dv, po>> : dv \in DomDivisions, po \in DomPortions}

----------------------------------------------------------------------------
(* locate() as a state machine *)

\* Values of the variables that locate() does not use
NoRef == <<>>

\* throw new Error('DOMParser not available - use jsdom in Node environment')
DOMParserNotAvailable ==
    [message |-> "DOMParser not available - use jsdom in Node environment"]

\* After new ArticleNavigator(articleHTML), doc being the article given: the
\* navigator is built; or, in the DOM version where DOMParser is not defined
\* (Node without jsdom), the constructor threw and no navigator exists
Init ==
    /\ impl \in Impls
    /\ doc \in Docs
    /\ ref = NoRef
    /\ compiled = <<>>
    /\ console = <<>>
    /\ \/ /\ pc = "idle"
          /\ error = <<>>
       \/ /\ impl = "dom"
          /\ pc = "failed"
          /\ error = <<DOMParserNotAvailable>>
    /\ path = <<>>
    /\ i = 0
    /\ scope = <<>>
    /\ result = <<>>
    /\ history = <<>>
    /\ rawText = <<>>
    /\ items = <<>>
    /\ blocks = <<>>
    /\ calls = <<>>

\* Mutant: the scope left by the previous call is where the next call starts
initialScope_kept == IF scope = <<>> THEN <<Body>> ELSE scope

\* let scope = this.$('body') / let current = this.article: the scope a call
\* of locate starts from
initialScope == <<Body>>

\* cheerio locate(reference), up to the first iteration of navigatePath
Locate_cheerio(reference) ==
    /\ pc = "idle"
    /\ impl = "cheerio"
    /\ LET r == IF reference.type = "reference_et_action"
                THEN reference.reference ELSE reference
           c == extractNavigationPath(r)
       IN  /\ ref' = reference
           /\ compiled' = <<c>>
           /\ IF c.threw
              THEN /\ pc' = "thrown"
                   /\ error' = <<c.error>>
                   /\ UNCHANGED <<path, i, scope>>
              ELSE /\ pc' = "nav"
                   /\ path' = Untag(c.value)
                   /\ i' = 1
                   /\ scope' = initialScope
                   /\ UNCHANGED error
    /\ UNCHANGED <<history, rawText, items, blocks, calls>>
    /\ UNCHANGED <<impl, console, doc, result>>

\* One iteration of the loop of navigatePath
Step_cheerio ==
    /\ pc = "nav"
    /\ impl = "cheerio"
    /\ i <= Len(path)
    /\ LET s == navigatePath_step(doc, scope, path[i])
       IN  IF s.threw
           THEN /\ pc' = "thrown"
                /\ error' = <<s.error>>
                /\ UNCHANGED <<i, scope>>
           ELSE /\ scope' = s.value
                /\ i' = i + 1
                /\ UNCHANGED <<pc, error>>
    /\ UNCHANGED <<history, rawText, items, blocks, calls>>
    /\ UNCHANGED <<impl, ref, compiled, console, doc, path, result>>

\* The return of navigatePath, hence of locate
Return_cheerio ==
    /\ pc = "nav"
    /\ impl = "cheerio"
    /\ i > Len(path)
    /\ result' = <<navigatePath_return(doc, scope)>>
    /\ pc' = "done"
    /\ UNCHANGED <<history, rawText, items, blocks, calls>>
    /\ UNCHANGED <<impl, ref, compiled, console, doc, path, i, scope, error>>

\* DOM locate(path), up to the first iteration of its loop
Locate_dom(p) ==
    /\ pc = "idle"
    /\ impl = "dom"
    /\ pc' = "nav"
    /\ path' = p
    /\ i' = 1
    /\ scope' = initialScope
    /\ UNCHANGED <<history, rawText, items, blocks, calls>>
    /\ UNCHANGED <<impl, ref, compiled, console, doc, result, error>>

\* One iteration of the loop of locate: current = navigateStep(current, step)
Step_dom ==
    /\ pc = "nav"
    /\ impl = "dom"
    /\ i <= Len(path)
    /\ LET s == navigateStep(doc, scope, path[i])
       IN  IF s.threw
           THEN /\ pc' = "thrown"
                /\ error' = <<s.error>>
                /\ UNCHANGED <<i, scope>>
           ELSE /\ scope' = s.value
                /\ i' = i + 1
                /\ UNCHANGED <<pc, error>>
    /\ UNCHANGED <<history, rawText, items, blocks, calls>>
    /\ UNCHANGED <<impl, ref, compiled, console, doc, path, result>>

\* return current: the element itself
Return_dom ==
    /\ pc = "nav"
    /\ impl = "dom"
    /\ i > Len(path)
    /\ result' = <<[element |-> scope[1]]>>
    /\ pc' = "done"
    /\ UNCHANGED <<history, rawText, items, blocks, calls>>
    /\ UNCHANGED <<impl, ref, compiled, console, doc, path, i, scope, error>>

Next ==
    \/ \E reference \in NavRefs : Locate_cheerio(reference)
    \/ Step_cheerio
    \/ Return_cheerio
    \/ \E p \in DomPaths : Locate_dom(p)
    \/ Step_dom
    \/ Return_dom

Spec == Init /\ [][Next]_vars

----------------------------------------------------------------------------
(* Properties of the Division step (checked under Spec) *)

\* The marker of a division step: num (cheerio) or identifier (DOM)
MarkerOf(step) == IF "num" \in DOMAIN step THEN step.num ELSE step.identifier

\* The surface forms of a marker: the marker followed by ".-", ". -", " -",
\* "." or the degree sign, and also by ")" in the cheerio version
AcceptedSuffixes ==
    {<<".", "-">>, <<".", " ", "-">>, <<" ", "-">>, <<".">>, <<"deg">>}
    \cup (IF impl = "cheerio" THEN {<<")">>} ELSE {})

StartsWithForm(text, marker) ==
    /\ marker # <<>>
    /\ \E suffix \in AcceptedSuffixes : startsWith(text, marker \o suffix)

\* The next step of the loop is a division step
AtDivisionStep == pc = "nav" /\ i <= Len(path) /\ path[i].type = "division"

\* The blocks of the current scope whose trimmed text starts with a surface
\* form of the marker of the next step
Matching ==
    {b \in 1..Len(doc) :
        /\ \E k \in 1..Len(scope) : scope[k] # b /\ IsInside(doc, b, scope[k])
        /\ StartsWithForm(trim(textContent(doc, b)), MarkerOf(path[i]))}

Earliest(S) == CHOOSE b \in S : \A c \in S : b <= c

\* C6: first match. A division step taken when some block of the current
\* scope starts (once trimmed) with a surface form of the marker makes the
\* earliest such block, in document order, the new scope.
C6_FirstMatch ==
    [][ (AtDivisionStep /\ Matching # {})
        => (pc' = "nav" /\ scope' = <<Earliest(Matching)>>) ]_vars

\* C6 witness: a division step taken from the document, where two blocks
\* start with the marker and the first block does not, selected the first of
\* the two
C6_Witness ==
    /\ pc = "nav"
    /\ i = 2
    /\ path[1].type = "division"
    /\ Len(doc) = 3
    /\ doc[2].text = doc[3].text
    /\ doc[1].text # doc[2].text
    /\ StartsWithForm(trim(textContent(doc, 3)), MarkerOf(path[1]))
    /\ ~StartsWithForm(trim(textContent(doc, 1)), MarkerOf(path[1]))
    /\ scope = <<2>>

\* The error names the marker: it holds the step (cheerio, as JSON) or the
\* identifier (DOM)
NamesMarker(e, marker) ==
    \/ "step" \in DOMAIN e /\ e.step.num = marker
    \/ "identifier" \in DOMAIN e /\ e.identifier = marker

\* C7 (as claimed): a division step taken when no block of the current scope
\* starts with a surface form of the marker throws an error that names the
\* marker.
C7_NoMatchFails ==
    [][ (AtDivisionStep /\ Matching = {})
        => ( /\ pc' = "thrown"
             /\ error' # <<>>
             /\ NamesMarker(error'[1], MarkerOf(path[i])) ) ]_vars

\* C8 (as claimed): a division step taken from the document scope, whose
\* marker is the prefix of the text of a block, succeeds and selects that
\* block.
C8_MarkerPrefixFound ==
    [][ (AtDivisionStep /\ i = 1 /\ MarkerOf(path[1]) # <<>>)
        => \A b \in 1..Len(doc) :
               startsWith(textContent(doc, b), MarkerOf(path[1]))
               => (pc' = "nav" /\ scope' = <<b>>) ]_vars

\* C8 (amended): a division step with a non-empty marker taken from the
\* document scope, when a surface form of the marker is the prefix of the text
\* of a block b, succeeds and selects the earliest block whose trimmed text
\* starts with a surface form of the marker: b itself when no block before b
\* is such a block.
C8_SurfaceFormFound ==
    [][ (AtDivisionStep /\ i = 1)
        => \A b \in 1..Len(doc) :
               StartsWithForm(textContent(doc, b), MarkerOf(path[1]))
               => /\ pc' = "nav"
                  /\ Len(scope') = 1
                  /\ scope'[1] \in 1..b
                  /\ StartsWithForm(trim(textContent(doc, scope'[1])),
                                    MarkerOf(path[1]))
                  /\ \A c \in 1..(scope'[1] - 1) :
                         ~StartsWithForm(trim(textContent(doc, c)),
                                         MarkerOf(path[1])) ]_vars

\* C8 witness: the division step for II, taken from the document, selected the
\* second block, the only one that starts with "II."
C8_Witness ==
    /\ pc = "nav"
    /\ i = 2
    /\ path[1].type = "division"
    /\ MarkerOf(path[1]) = <<"I", "I">>
    /\ Len(doc) >= 2
    /\ startsWith(doc[2].text, <<"I", "I", ".">>)
    /\ ~startsWith(doc[1].text, <<"I", "I", ".">>)
    /\ scope = <<2>>

----------------------------------------------------------------------------
(* Properties of the paragraph-unit Portion step (checked under Spec) *)

\* The next step of the loop is a portion step
AtPortionStep == pc = "nav" /\ i <= Len(path) /\ path[i].type = "portion"

\* The step selects among paragraphs: portionType 'alinea' in the cheerio
\* version; the DOM version has one kind of portion step, over paragraphs
IsParagraphUnit(step) ==
    IF "portionType" \in DOMAIN step THEN step.portionType = "alinea" ELSE TRUE

\* The ordinal of the step as the 1-based index with sentinel -1: the index
\* (cheerio); a positive number, or 'first', 'second', 'last' (DOM); <<>> when
\* the step has none
OrdinalOfStep(step) ==
    IF "index" \in DOMAIN step THEN step.index
    ELSE LET o == ordinalOf(step)
         IN  IF o = Word("last") THEN <<-1>>
             ELSE IF o = Word("first") THEN <<1>>
             ELSE IF o = Word("second") THEN <<2>>
             ELSE IF o.kind = "number" /\ o.n >= 1 THEN <<o.n>>
             ELSE <<>>

\* The blocks of the current scope, in document order
ScopeBlocks == find_p(doc, scope)

\* C9 (as claimed): a paragraph-unit portion step with ordinal -1 selects the
\* last block of the current scope, and with ordinal k >= 1 the k-th block
\* (position k-1 counted from 0).
C9_ParagraphSelected ==
    [][ (AtPortionStep /\ IsParagraphUnit(path[i]) /\ OrdinalOfStep(path[i]) # <<>>)
        => LET o == OrdinalOfStep(path[i])[1]
               n == Len(ScopeBlocks)
           IN  /\ (o = -1 /\ n >= 1) => (pc' = "nav" /\ scope' = <<ScopeBlocks[n]>>)
               /\ o \in 1..n => (pc' = "nav" /\ scope' = <<ScopeBlocks[o]>>) ]_vars

\* C10 (as claimed): a paragraph-unit portion step whose ordinal is out of
\* range (k greater than the number of blocks of the scope, or -1 on a scope
\* without blocks) ends the navigation with a throw.
C10_OutOfRangeFails ==
    [][ (AtPortionStep /\ IsParagraphUnit(path[i]) /\ OrdinalOfStep(path[i]) # <<>>)
        => LET o == OrdinalOfStep(path[i])[1]
               n == Len(ScopeBlocks)
           IN  (o > n \/ (o = -1 /\ n = 0)) => pc' = "thrown" ]_vars

----------------------------------------------------------------------------
(* Properties of the sentence-unit Portion step (checked under Spec) *)

\* The step selects among sentences: portionType 'phrase' (cheerio version;
\* the steps of the DOM version have no sentence unit)
IsSentenceUnit(step) ==
    "portionType" \in DOMAIN step /\ step.portionType = "phrase"

\* The sentences of the text of the current scope
ScopeSentences == splitSentences(text_cheerio(doc, scope, 1))

\* C11 (as claimed): a sentence-unit portion step with ordinal -1 succeeds
\* (selecting the last sentence) when the scope has a sentence, with ordinal
\* k in 1..n succeeds (selecting the k-th of the n sentences), and with
\* ordinal k > n throws.
C11_SentenceSelected ==
    [][ (AtPortionStep /\ IsSentenceUnit(path[i]) /\ path[i].index # <<>>)
        => LET o == path[i].index[1]
               n == Len(ScopeSentences)
           IN  /\ (o = -1 /\ n >= 1) => pc' = "nav"
               /\ o \in 1..n => pc' = "nav"
               /\ o > n => pc' = "thrown" ]_vars

\* A fragment that is the sentence alone, with or without its final
\* punctuation mark
IsSentenceSpan(fragment, sentence) ==
    \/ fragment = sentence
    \/ \E c \in {".", "!", "?"} : fragment = Append(sentence, c)

\* C12 (as claimed): when locate returns after a path that ends with a
\* sentence-unit portion step of ordinal k >= 1, the fragment returned is the
\* k-th sentence of the scope, not the whole block.
C12_SentenceFragment ==
    (/\ pc = "done"
     /\ impl = "cheerio"
     /\ path # <<>>
     /\ path[Len(path)].type = "portion"
     /\ IsSentenceUnit(path[Len(path)])
     /\ path[Len(path)].index # <<>>
     /\ path[Len(path)].index[1] >= 1)
    => LET k == path[Len(path)].index[1]
       IN  /\ k <= Len(ScopeSentences)
           /\ IsSentenceSpan(result[1], ScopeSentences[k])

----------------------------------------------------------------------------
(* Properties of a path of several steps (checked under Spec) *)

\* The markers of the divisions of the articles of the model
KnownMarkers == {<<"I">>, <<"I", "I">>}

\* The block b opens a division: its trimmed text starts with a surface form
\* of a marker
OpensDivision(b) ==
    \E marker \in KnownMarkers : StartsWithForm(trim(textContent(doc, b)), marker)

\* The blocks that follow the block m up to the next block opening a division
DivisionSpan(m) ==
    {b \in (m + 1)..Len(doc) : \A c \in (m + 1)..b : ~OpensDivision(c)}

\* C13 (as claimed): the blocks being flat, after a division step that matched
\* the block m, a paragraph-unit portion step with ordinal -1 selects the last
\* of the blocks that follow m up to the next division marker.
C13_LastParagraphOfDivision ==
    [][ (/\ AtPortionStep
         /\ i = 2
         /\ path[1].type = "division"
         /\ IsParagraphUnit(path[2])
         /\ OrdinalOfStep(path[2]) = <<-1>>
         /\ Len(scope) = 1
         /\ scope[1] # Body
         /\ StartsWithForm(trim(textContent(doc, scope[1])), MarkerOf(path[1]))
         /\ DivisionSpan(scope[1]) # {})
        => LET span == DivisionSpan(scope[1])
           IN  /\ pc' = "nav"
               /\ scope' = <<CHOOSE b \in span : \A c \in span : c <= b>> ]_vars

\* C14 (as claimed): the error of a navigation failure reports the step that
\* failed and the scope that was active.
C14_FailureReportsStepAndScope ==
    (pc = "thrown" /\ i >= 1)
    => (/\ error # <<>>
        /\ "step" \in DOMAIN error[1]
        /\ "scope" \in DOMAIN error[1])

----------------------------------------------------------------------------
(* Repeated calls of locate() on one navigator *)

\* Largest number of calls of locate() on one navigator
MaxCalls == 2

\* The argument of the current call: the reference (cheerio) or the path (DOM)
InputOf == IF impl = "cheerio" THEN ref ELSE path

\* What the current call gave its caller: the value returned or the error
Outcome ==
    IF pc = "done" THEN [returned |-> result[1]] ELSE [thrown |-> error[1]]

\* The first call on the navigator
Call_cheerio(reference) == history = <<>> /\ Locate_cheerio(reference)

Call_dom(p) == history = <<>> /\ Locate_dom(p)

\* locate() returned or threw: the caller has the outcome, and the navigator
\* (its document and the fields of the object) stays as the call left it
Returned ==
    /\ pc \in {"done", "thrown"}
    /\ Len(history) < MaxCalls - 1
    /\ history' = Append(history, [input |-> InputOf, outcome |-> Outcome])
    /\ pc' = "idle"
    /\ UNCHANGED <<impl, ref, compiled, console, doc, path, i, scope, result,
                   error, rawText, items, blocks, calls>>

\* A later call on the same navigator with the argument of the call before
Recall_cheerio ==
    /\ history # <<>>
    /\ impl = "cheerio"
    /\ Locate_cheerio(history[Len(history)].input)

Recall_dom ==
    /\ history # <<>>
    /\ impl = "dom"
    /\ Locate_dom(history[Len(history)].input)

NextRepeat ==
    \/ \E reference \in NavRefs : Call_cheerio(reference)
    \/ \E p \in DomPaths : Call_dom(p)
    \/ Recall_cheerio
    \/ Recall_dom
    \/ Step_cheerio
    \/ Return_cheerio
    \/ Step_dom
    \/ Return_dom
    \/ Returned

SpecRepeat == Init /\ [][NextRepeat]_vars

\* C15: determinism. When a call of locate ends, every earlier call on the
\* same navigator with the same argument ended with the same outcome: the
\* same fragment returned or the same error thrown.
C15_SameResultOnRepeat ==
    pc \in {"done", "thrown"}
    => \A k \in 1..Len(history) :
           history[k].input = InputOf => history[k].outcome = Outcome

\* C15 witness: a second call with a division step ended, after a first call
\* that had moved the scope to a block, and returned the fragment again
C15_Witness ==
    /\ pc = "done"
    /\ history # <<>>
    /\ history[1].input = InputOf
    /\ history[1].outcome = Outcome
    /\ path # <<>>
    /\ path[1].type = "division"
    /\ Len(scope) = 1
    /\ scope[1] # Body

----------------------------------------------------------------------------
(* The parsers of the text of a modification.  A text is the sequence of   *)
(* its words, normalised (lower case, no diacritics); the quotation marks  *)
(* are the words "<<" and ">>".  A parser takes the text and the position  *)
(* of the cursor and returns Success(value, pos) or Failure(pos), the      *)
(* cursor being left where it was on a failure.                            *)

Success(value, pos) == [ok |-> TRUE, value |-> value, pos |-> pos]

Failure(pos) == [ok |-> FALSE, pos |-> pos]

\* The word under the cursor, "" at the end of the text
wordAt(t, k) == IF k >= 1 /\ k <= Len(t) THEN t[k] ELSE ""

\* Division markers and their value: num and index of the item
Markers == {"I", "II", "III", "IV", "A"}

markerNum(m) ==
    CASE m = "I" -> <<"I">>
      [] m = "II" -> <<"I", "I">>
      [] m = "III" -> <<"I", "I", "I">>
      [] m = "IV" -> <<"I", "V">>
      [] m = "A" -> <<"A">>

markerIndex(m) ==
    CASE m \in {"I", "A"} -> 1
      [] m = "II" -> 2
      [] m = "III" -> 3
      [] m = "IV" -> 4

\* Symbolic ordinals, normalised at parse time: first 1, second 2, last -1
OrdinalWords == {"premier", "premiere", "second", "seconde", "dernier", "derniere"}

ordinalIndex(w) ==
    CASE w \in {"premier", "premiere"} -> 1
      [] w \in {"second", "seconde"} -> 2
      [] w \in {"dernier", "derniere"} -> -1

Determiners == {"le", "la", "l'"}

\* The words that compose two references, "X du Y"; a reference may begin
\* with one of them ("du dernier alinea du II")
Links == {"du", "de", "au"}

\* A division: a roman marker
division(t, k) ==
    IF wordAt(t, k) \in Markers
    THEN Success(Atom("item", <<>>, markerNum(wordAt(t, k)),
                      <<markerIndex(wordAt(t, k))>>, <<>>), k + 1)
    ELSE Failure(k)

\* A portion: an ordinal and its unit, "dernier alinea", "seconde phrase"
portion(t, k) ==
    IF wordAt(t, k) \in OrdinalWords /\ wordAt(t, k + 1) \in PortionTypes
    THEN LET index == ordinalIndex(wordAt(t, k))
         IN  Success(Atom(wordAt(t, k + 1), <<>>,
                          IF index = -1 THEN Dernier ELSE <<>>, <<index>>, <<>>),
                     k + 2)
    ELSE Failure(k)

\* Mutant: "X du Y" is ParentChild(X, Y), in the order of the words
RECURSIVE referenceGrammar_surfaceOrder(_, _)
referenceGrammar_surfaceOrder(t, k) ==
    LET start == IF wordAt(t, k) \in Determiners \cup Links THEN k + 1 ELSE k
        atom == IF portion(t, start).ok THEN portion(t, start) ELSE division(t, start)
    IN  IF ~atom.ok THEN Failure(k)
        ELSE IF wordAt(t, atom.pos) \in Links
        THEN LET outer == referenceGrammar_surfaceOrder(t, atom.pos + 1)
             IN  IF outer.ok
                 THEN Success(ParentChild(atom.value, outer.value), outer.pos)
                 ELSE atom
        ELSE atom

\* The reference grammar: "X du Y" is ParentChild(Y, X), right-recursive;
\* on a failure the cursor is where it was
RECURSIVE referenceGrammar(_, _)
referenceGrammar(t, k) ==
    LET start == IF wordAt(t, k) \in Determiners \cup Links THEN k + 1 ELSE k
        atom == IF portion(t, start).ok THEN portion(t, start) ELSE division(t, start)
    IN  IF ~atom.ok THEN Failure(k)
        ELSE IF wordAt(t, atom.pos) \in Links
        THEN LET outer == referenceGrammar(t, atom.pos + 1)
             IN  IF outer.ok
                 THEN Success(ParentChild(outer.value, atom.value), outer.pos)
                 ELSE atom
        ELSE atom

\* The quotations that follow the verb, from position k to the end of the
\* text: Success(their contents, in order), and Failure on an opening mark
\* that is not closed or a closing mark that was not opened
RECURSIVE citations(_, _, _)
citations(t, k, found) ==
    IF k > Len(t) THEN Success(found, k)
    ELSE IF t[k] = ">>" THEN Failure(k)
    ELSE IF t[k] = "<<"
    THEN LET closing == {c \in (k + 1)..Len(t) :
                            /\ t[c] = ">>"
                            /\ \A m \in (k + 1)..(c - 1) : t[m] \notin {"<<", ">>"}}
         IN  IF closing = {} THEN Failure(k)
             ELSE LET close == CHOOSE q \in closing : TRUE
                  IN  citations(t, close + 1,
                                Append(found, SubSeq(t, k + 1, close - 1)))
    ELSE citations(t, k + 1, found)

\* The verb at position k: <<kind, position after the verb>>, or <<>>
verbAt(t, k) ==
    LET copula == wordAt(t, k)
        verb == wordAt(t, k + 1)
    IN  IF copula = "est"
           /\ verb \in {"remplace", "remplacee", "remplaces", "remplacees"}
           /\ wordAt(t, k + 2) = "par"
        THEN <<"MODIFICATION", k + 3>>
        ELSE IF copula \in {"est", "sont"}
                /\ verb \in {"insere", "inseree", "inseres", "inserees"}
        THEN <<"CREATION", k + 2>>
        ELSE IF copula = "est" /\ verb \in {"complete", "completee", "completes"}
        THEN <<"CREATION", k + 2>>
        ELSE IF copula = "est" /\ verb \in {"abroge", "abrogee", "supprime", "supprimee"}
        THEN <<"SUPPRESSION", k + 2>>
        ELSE IF copula = "est" /\ verb = "ainsi" /\ wordAt(t, k + 2) \in {"redige", "redigee"}
        THEN <<"MODIFICATION", k + 3>>
        ELSE <<>>

\* Mutant: the classifier requires a quotation after the verb
action_citationRequired(t, k) ==
    LET lead == IF wordAt(t, k) = "apres" /\ wordAt(t, k + 1) \in Determiners
                   /\ wordAt(t, k + 2) \in Markers /\ wordAt(t, k + 3) = ","
                   /\ wordAt(t, k + 4) = "il"
                THEN k + 5 ELSE k
        verb == verbAt(t, lead)
    IN  IF verb = <<>> THEN Failure(k)
        ELSE LET quoted == citations(t, verb[2], <<>>)
             IN  IF ~quoted.ok \/ quoted.value = <<>> THEN Failure(k)
                 ELSE Success([action |-> verb[1], citations |-> quoted.value],
                              quoted.pos)

\* The action classifier: an optional "apres le III , il", the verb, and the
\* quotations that follow it, if any
action(t, k) ==
    LET lead == IF wordAt(t, k) = "apres" /\ wordAt(t, k + 1) \in Determiners
                   /\ wordAt(t, k + 2) \in Markers /\ wordAt(t, k + 3) = ","
                   /\ wordAt(t, k + 4) = "il"
                THEN k + 5 ELSE k
        verb == verbAt(t, lead)
    IN  IF verb = <<>> THEN Failure(k)
        ELSE LET quoted == citations(t, verb[2], <<>>)
             IN  IF ~quoted.ok THEN Failure(k)
                 ELSE Success([action |-> verb[1], citations |-> quoted.value],
                              quoted.pos)

\* The parser `reference`: the reference grammar, and the action clause that
\* follows the reference at once (after an optional comma), if there is one
reference(t, k) ==
    LET r == referenceGrammar(t, k)
    IN  IF ~r.ok THEN Failure(k)
        ELSE LET next == IF wordAt(t, r.pos) = "," THEN r.pos + 1 ELSE r.pos
                 a == action(t, next)
             IN  IF a.ok
                 THEN Success([type |-> "reference_et_action",
                               reference |-> r.value, action |-> a.value], a.pos)
                 ELSE r

----------------------------------------------------------------------------
(* Parser combinators: a parser is described by its kind and its members *)

Primitive(name) == [kind |-> "primitive", name |-> name]

\* A literal: one of the words
Literal(words) == [kind |-> "literal", words |-> words]

Sequence(members) == [kind |-> "sequence", of |-> members]

Alternative(members) == [kind |-> "alternative", of |-> members]

Optional(member, default) == [kind |-> "optional", of |-> <<member>>, default |-> default]

Repeat(member, min, max) ==
    [kind |-> "repeat", of |-> <<member>>, min |-> min, max |-> max]

\* The parsers of the grammar, by name
run(name, t, k) ==
    CASE name = "division" -> division(t, k)
      [] name = "portion" -> portion(t, k)
      [] name = "reference" -> reference(t, k)
      [] name = "action" -> action(t, k)

RECURSIVE apply(_, _, _)
RECURSIVE sequenceFrom_noRestore(_, _, _, _, _, _)
RECURSIVE sequenceFrom(_, _, _, _, _, _)
RECURSIVE alternativeFrom(_, _, _, _)
RECURSIVE repeatFrom(_, _, _, _, _)

\* Mutant: a sequence that fails leaves the cursor where its member failed
sequenceFrom_noRestore(members, t, start, j, values, cursor) ==
    IF j > Len(members) THEN Success(values, cursor)
    ELSE LET r == apply(members[j], t, cursor)
         IN  IF r.ok
             THEN sequenceFrom_noRestore(members, t, start, j + 1,
                                         Append(values, r.value), r.pos)
             ELSE Failure(cursor)

\* sequence([p1..pn]): the members from the j-th on, the cursor being at
\* cursor; all must succeed in order, and on a failure the cursor goes back
\* to where it was before p1
sequenceFrom(members, t, start, j, values, cursor) ==
    IF j > Len(members) THEN Success(values, cursor)
    ELSE LET r == apply(members[j], t, cursor)
         IN  IF r.ok
             THEN sequenceFrom(members, t, start, j + 1, Append(values, r.value), r.pos)
             ELSE Failure(start)

\* alternative([p1..pn]): the first member that succeeds, from the j-th on
alternativeFrom(members, t, k, j) ==
    IF j > Len(members) THEN Failure(k)
    ELSE LET r == apply(members[j], t, k)
         IN  IF r.ok THEN r ELSE alternativeFrom(members, t, k, j + 1)

\* optional(p, default): the default, without consuming input, when p fails
optional(member, default, t, k) ==
    LET r == apply(member, t, k)
    IN  IF r.ok THEN r ELSE Success(default, k)

\* repeat(p, {min, max}), greedy: the values parsed so far and the cursor;
\* it stops at the first failure or at max
repeatFrom(p, t, start, values, cursor) ==
    LET r == IF Len(values) < p.max THEN apply(p.of[1], t, cursor) ELSE Failure(cursor)
    IN  IF r.ok THEN repeatFrom(p, t, start, Append(values, r.value), r.pos)
        ELSE IF Len(values) >= p.min THEN Success(values, cursor)
        ELSE Failure(start)

\* The parser p on the text t with the cursor at k
apply(p, t, k) ==
    CASE p.kind = "primitive" -> run(p.name, t, k)
      [] p.kind = "literal" ->
            IF wordAt(t, k) \in p.words THEN Success(wordAt(t, k), k + 1) ELSE Failure(k)
      [] p.kind = "sequence" -> sequenceFrom(p.of, t, k, 1, <<>>, k)
      [] p.kind = "alternative" -> alternativeFrom(p.of, t, k, 1)
      [] p.kind = "optional" -> optional(p.of[1], p.default, t, k)
      [] p.kind = "repeat" -> repeatFrom(p, t, k, <<>>, k)

\* Largest number of repetitions of a repeat
MaxRepeat == 2

\* A quotation between its marks
Quotation == Sequence(<<Literal({"<<"}), Literal({"x"}), Literal({">>"})>>)

\* Parsers tried on the texts: the parsers of the grammar and parsers built
\* from them with each combinator
ParserChoices ==
    {Primitive("division"), Primitive("portion"), Primitive("reference"),
     Primitive("action"),
     Sequence(<<Literal(Determiners), Primitive("division")>>),
     Sequence(<<Primitive("portion"), Literal(Links), Primitive("division")>>),
     Alternative(<<Primitive("portion"), Primitive("division")>>),
     Optional(Literal(Determiners), ""),
     Sequence(<<Optional(Literal(Determiners), ""),
                Alternative(<<Primitive("portion"), Primitive("division")>>),
                Literal({"est", "sont"})>>)}
    \cup {Repeat(Quotation, min, MaxRepeat) : min \in 0..1}

----------------------------------------------------------------------------
(* parseModification *)

\* What parseModification gives: the value returned (<<>> for null), the
\* messages of console.warn and the parsers it called
Parsed(value, warns, called) ==
    [threw |-> FALSE, value |-> value, warns |-> warns, calls |-> called]

\* parseModification does not return: the error thrown, with the messages of
\* console.warn written before it and the parsers called
ParsedThrow(e, warns, called) ==
    [threw |-> TRUE, error |-> e, warns |-> warns, calls |-> called]

\* The ParsedModification built from the action and the optional reference,
\* or the throw of convertAstToNavigationPath
ParsedModification(parsedAction, parsedReference) ==
    IF parsedReference = <<>>
    THEN Ok([action |-> parsedAction, reference |-> <<>>, targetPath |-> <<>>])
    ELSE LET c == convertAstToNavigationPath(parsedReference[1])
         IN  IF c.threw THEN c
             ELSE Ok([action |-> parsedAction,
                      reference |-> parsedReference,
                      targetPath |-> <<[steps |-> Untag(c.value.steps)]>>])

\* The warnings of convertAstToNavigationPath for the optional reference
targetPathWarnings(parsedReference) ==
    IF parsedReference = <<>> THEN <<>>
    ELSE LET c == convertAstToNavigationPath(parsedReference[1])
         IN  IF c.threw THEN c.warns ELSE c.value.warns

\* The value of F at v, with v evaluated once: `const x = v` of the code
Const(v, F(_)) == CHOOSE y \in {F(x) : x \in {v}} : TRUE

\* Lines 412-431: the action and the reference of the result of the parsers
\* (<<>> when both returned nothing), and what parseModification returns
discriminate(parsed, called) ==
    IF parsed = <<>>
    THEN Parsed(<<>>, <<"Failed to parse modification">>, called)
    ELSE IF "type" \in DOMAIN parsed[1] /\ parsed[1].type = "reference_et_action"
    THEN LET built == ParsedModification(parsed[1].action, <<parsed[1].reference>>)
             warns == targetPathWarnings(<<parsed[1].reference>>)
         IN  IF built.threw THEN ParsedThrow(built.error, warns, called)
             ELSE Parsed(<<built.value>>, warns, called)
    ELSE IF "action" \in DOMAIN parsed[1]
    THEN Parsed(<<ParsedModification(parsed[1], <<>>).value>>, <<>>, called)
    ELSE Parsed(<<>>, <<"Unexpected parse result type">>, called)

\* Mutant: the action parser is not tried when the reference parser fails
parseModification_noFallback(t) ==
    Const(reference(t, 1), LAMBDA first :
        discriminate(IF first.ok THEN <<first.value>> ELSE <<>>, <<"reference">>))

\* let result = reference(context); if (!result) result = action(context);
\* the context is the same, so the action parser starts where the reference
\* parser left the cursor
parseModification(t) ==
    Const(reference(t, 1), LAMBDA first :
        IF first.ok
        THEN discriminate(<<first.value>>, <<"reference">>)
        ELSE Const(action(t, first.pos), LAMBDA second :
                 discriminate(IF second.ok THEN <<second.value>> ELSE <<>>,
                              <<"reference", "action">>)))

----------------------------------------------------------------------------
(* Inputs of parseModification *)

\* Largest number of words between the verb and the quotations
MaxFiller == 1

\* Largest number of quotations after the verb
MaxCitations == 1

\* "x" is a word of no lexicon
ReferenceClauses ==
    {<<>>, <<"le", "II">>, <<"x">>, <<"le">>,
     <<"le", "A", "du", "IV">>,
     <<"du", "dernier", "alinea", "du", "II">>,
     <<"la", "seconde", "phrase", "du", "dernier", "alinea", "du", "II">>}

VerbClauses ==
    {<<>>, <<"est", "remplacee", "par">>, <<"est", "remplacee">>,
     <<"sont", "inseres">>, <<"est", "abroge">>,
     <<"apres", "le", "III", ",", "il", "est", "insere">>}

RECURSIVE Repeated(_, _)
Repeated(words, n) == IF n = 0 THEN <<>> ELSE words \o Repeated(words, n - 1)

\* What follows the verb: words, then quotations; or a quotation that is not
\* closed, or a closing mark alone
Tails ==
    {Repeated(<<"x">>, f) \o Repeated(<<"<<", "x", ">>">>, c) :
        f \in 0..MaxFiller, c \in 0..MaxCitations}
    \cup {<<"<<", "x">>, <<">>">>}

ParseTexts ==
    {r \o v \o tail : r \in ReferenceClauses, v \in VerbClauses, tail \in Tails}

----------------------------------------------------------------------------
(* parseModification as a state machine *)

InitParse ==
    /\ impl = "dom"
    /\ rawText \in ParseTexts
    /\ pc = "parse"
    /\ ref = NoRef
    /\ compiled = <<>>
    /\ console = <<>>
    /\ doc = NoDoc
    /\ path = <<>>
    /\ i = 0
    /\ scope = <<>>
    /\ result = <<>>
    /\ error = <<>>
    /\ history = <<>>
    /\ items = <<>>
    /\ blocks = <<>>
    /\ calls = <<>>

\* parseModification(rawText)
ParseModification ==
    /\ pc = "parse"
    /\ LET parsed == parseModification(rawText)
       IN  /\ console' = parsed.warns
           /\ calls' = parsed.calls
           /\ IF parsed.threw
              THEN /\ pc' = "thrown"
                   /\ error' = <<parsed.error>>
                   /\ UNCHANGED result
              ELSE /\ pc' = "parsed"
                   /\ result' = parsed.value
                   /\ UNCHANGED error
    /\ UNCHANGED <<impl, ref, compiled, doc, path, i, scope, history,
                   rawText, items, blocks>>

\* One parser is tried on the text with the cursor at k: the attempt is
\* recorded with the cursor before it and its outcome
Attempt(p, k) ==
    /\ pc = "parse"
    /\ history' = <<[parser |-> p, before |-> k, outcome |-> apply(p, rawText, k)]>>
    /\ pc' = "attempted"
    /\ UNCHANGED <<impl, ref, compiled, console, doc, path, i, scope, result,
                   error, rawText, items, blocks, calls>>

NextParse ==
    \/ ParseModification
    \/ \E p \in ParserChoices : \E k \in 1..(Len(rawText) + 1) : Attempt(p, k)

SpecParse == InitParse /\ [][NextParse]_vars

----------------------------------------------------------------------------
(* Properties of parseModification (checked under SpecParse) *)

\* C18: the reference parser is called first; the action parser is called,
\* on the same text from its start, only when the reference parser failed;
\* then the result is the action alone, and null (no exception) when the
\* action parser fails too.
C18_ReferenceThenAction ==
    pc = "parsed"
    => LET r == reference(rawText, 1)
           a == action(rawText, 1)
       IN  /\ calls # <<>>
           /\ calls[1] = "reference"
           /\ r.ok => calls = <<"reference">>
           /\ ~r.ok => calls = <<"reference", "action">>
           /\ (~r.ok /\ a.ok)
              => /\ result # <<>>
                 /\ result[1].action = a.value
                 /\ result[1].reference = <<>>
           /\ (~r.ok /\ ~a.ok) => result = <<>>

\* C18 witness: the reference parser failed, the action parser was called and
\* the action alone was returned
C18_Witness ==
    /\ pc = "parsed"
    /\ ~reference(rawText, 1).ok
    /\ calls = <<"reference", "action">>
    /\ result # <<>>
    /\ result[1].reference = <<>>
    /\ result[1].action.action = "MODIFICATION"

\* C19 (as claimed): when the reference parser succeeds and no action clause
\* follows the reference, the bare reference is returned as a successful
\* result, not null.
C19_BareReferenceReturned ==
    (/\ pc = "parsed"
     /\ referenceGrammar(rawText, 1).ok
     /\ ~action(rawText, referenceGrammar(rawText, 1).pos).ok
     /\ wordAt(rawText, referenceGrammar(rawText, 1).pos) # ",")
    => (/\ result # <<>>
        /\ result[1].reference = <<referenceGrammar(rawText, 1).value>>)

\* No quotation mark in the text from position k on
NoQuotationFrom(t, k) == \A m \in k..Len(t) : t[m] \notin {"<<", ">>"}

\* C20: the kind of the action is the kind of its verb whatever follows the
\* verb, "est remplacee par" giving MODIFICATION and "est / sont insere(s)"
\* CREATION, also after "apres le III , il"; and when no quotation follows
\* the verb the classifier succeeds, with no citation.
C20_VerbDecidesKind ==
    pc = "parsed"
    => \A k \in 1..Len(rawText) :
         LET a == action(rawText, k)
             lead == SubSeq(rawText, k, Len(rawText))
             after == IF IsPrefix(<<"apres", "le", "III", ",", "il">>, lead)
                      THEN k + 5 ELSE k
             replaces == /\ wordAt(rawText, after) = "est"
                         /\ wordAt(rawText, after + 1) = "remplacee"
                         /\ wordAt(rawText, after + 2) = "par"
             inserts == /\ wordAt(rawText, after) \in {"est", "sont"}
                        /\ wordAt(rawText, after + 1) \in {"insere", "inseres"}
         IN  /\ (replaces /\ a.ok) => a.value.action = "MODIFICATION"
             /\ (inserts /\ a.ok) => a.value.action = "CREATION"
             /\ (replaces /\ NoQuotationFrom(rawText, after + 3))
                => (a.ok /\ a.value.citations = <<>>)
             /\ (inserts /\ NoQuotationFrom(rawText, after + 2))
                => (a.ok /\ a.value.citations = <<>>)

\* C20 witness: "est remplacee par x", a verb followed by a word and no
\* quotation, was parsed as a MODIFICATION with no citation
C20_Witness ==
    /\ pc = "parsed"
    /\ rawText = <<"est", "remplacee", "par", "x">>
    /\ result # <<>>
    /\ result[1].action = [action |-> "MODIFICATION", citations |-> <<>>]

----------------------------------------------------------------------------
(* Batch extraction: extractModificationsFromProject, in the version of    *)
(* article-navigator.ts ("dom") and in the draft of the design notes       *)
(* ("draft")                                                               *)

\* A <li class="assnatFPFprojetloiartexte">: the words of its own text, and
\* after them its <a class="lien_article_externe"> if it has one (<<>> if not)
Item(words, link) == [text |-> words, link |-> link]

\* The link: its href attribute (<<>> when absent) and its text.  A href is a
\* sequence of pieces: "LEGIARTI", a digit, or any other piece of text
Link(href, title) == [href |-> href, title |-> title]

\* item.textContent: the text of the <li>, the text of its link included
itemTextContent(item) ==
    item.text \o (IF item.link = <<>> THEN <<>> ELSE item.link[1].title)

isDigit(c) == c \in {"0", "1", "2", "3", "4", "5", "6", "7", "8", "9"}

\* href.match(/LEGIARTI\d+/): the first "LEGIARTI" followed by digits, with
\* all the digits that follow it; '' for a null href or without a match
extractArticleId(href) ==
    IF href = <<>> THEN <<>>
    ELSE LET h == href[1]
             starts == {p \in 1..(Len(h) - 1) : h[p] = "LEGIARTI" /\ isDigit(h[p + 1])}
         IN  IF starts = {} THEN <<>>
             ELSE LET p == CHOOSE q \in starts : \A r \in starts : q <= r
                      ends == {e \in (p + 1)..Len(h) :
                                  \A m \in (p + 1)..e : isDigit(h[m])}
                      e == CHOOSE q \in ends : \A r \in ends : r <= q
                  IN  SubSeq(h, p, e)

\* The position of a node: the cursor before its first word and the cursor
\* after its last word
Position(start, stop) == [start |-> start, stop |-> stop]

\* The parser `citation`: one quotation at the cursor
citation(t, k) ==
    LET closing == {c \in (k + 1)..Len(t) :
                       /\ t[c] = ">>"
                       /\ \A m \in (k + 1)..(c - 1) : t[m] \notin {"<<", ">>"}}
    IN  IF wordAt(t, k) = "<<" /\ closing # {}
        THEN LET close == CHOOSE c \in closing : TRUE
             IN  Success(SubSeq(t, k + 1, close - 1), close + 1)
        ELSE Failure(k)

\* Mutant: the modification stops where its action stops, with or without
\* a citation
modificationValue_stopAtAction(results) ==
    [type |-> "modification",
     target |-> results[1],
     action |-> results[2],
     newContent |-> results[3],
     position |-> Position(results[1].position.start,
                           results[2].position.stop)]

\* value: (results) => ({type: 'modification', target: results[0], action:
\* results[1], newContent: results[2], position: {start, stop}}), the
\* results being the nodes the members of the chain returned (<<>> for the
\* null of the optional member, <<node>> otherwise): the position starts
\* where results[0] starts and stops where results[2] stops, or where
\* results[1] stops when results[2] is null
modificationValue(results) ==
    [type |-> "modification",
     target |-> results[1],
     action |-> results[2],
     newContent |-> results[3],
     position |-> Position(results[1].position.start,
                           IF results[3] # <<>>
                           THEN results[3][1].position.stop
                           ELSE results[2].position.stop)]

\* The parser `modification` of the draft: chain([reference, action,
\* optional(citation, {default: null})]) from the start of the text, each
\* member starting where the member before it left the cursor; <<>> when
\* the chain fails
modification(t) ==
    Const(reference(t, 1), LAMBDA target :
        IF ~target.ok THEN <<>>
        ELSE Const(action(t, target.pos), LAMBDA act :
            IF ~act.ok THEN <<>>
            ELSE Const(citation(t, act.pos), LAMBDA content :
                <<modificationValue(
                    <<[position |-> Position(1, target.pos)] @@ target.value,
                      [position |-> Position(target.pos, act.pos)] @@ act.value,
                      IF content.ok
                      THEN <<[type |-> "citation",
                              content |-> content.value,
                              position |-> Position(act.pos, content.pos)]>>
                      ELSE <<>> >>)>>)))

\* `mod-${index}`
modId(index) == <<"mod-", index>>

\* Mutant: the loop stops at the first block that is not parsed
RECURSIVE forEach_stopOnFailure(_, _, _, _)
forEach_stopOnFailure(version, list, index, acc) ==
    IF index >= Len(list) THEN acc
    ELSE LET item == list[index + 1]
         IN  IF version = "dom"
             THEN IF item.link # <<>>
                  THEN IF parseModification(itemTextContent(item)).value = <<>> THEN acc
                       ELSE forEach_stopOnFailure(version, list, index + 1,
                               Append(acc, [id |-> modId(index),
                                            articleId |-> extractArticleId(item.link[1].href),
                                            articleTitle |-> item.link[1].title,
                                            rawText |-> itemTextContent(item),
                                            ast |-> parseModification(itemTextContent(item)).value]))
                  ELSE forEach_stopOnFailure(version, list, index + 1, acc)
             ELSE IF modification(itemTextContent(item)) # <<>>
                  THEN forEach_stopOnFailure(version, list, index + 1,
                           Append(acc, [id |-> modId(index),
                                        rawText |-> itemTextContent(item),
                                        ast |-> modification(itemTextContent(item))]))
                  ELSE acc

\* items.forEach((item, index) => { ... }): the records pushed from the
\* index-th item on, after those of acc
RECURSIVE forEach(_, _, _, _)
forEach(version, list, index, acc) ==
    IF index >= Len(list) THEN acc
    ELSE LET item == list[index + 1]
         IN  IF version = "dom"
             THEN IF item.link # <<>>
                  THEN forEach(version, list, index + 1,
                           Append(acc, [id |-> modId(index),
                                        articleId |-> extractArticleId(item.link[1].href),
                                        articleTitle |-> item.link[1].title,
                                        rawText |-> itemTextContent(item),
                                        ast |-> parseModification(itemTextContent(item)).value]))
                  ELSE forEach(version, list, index + 1, acc)
             ELSE IF modification(itemTextContent(item)) # <<>>
                  THEN forEach(version, list, index + 1,
                           Append(acc, [id |-> modId(index),
                                        rawText |-> itemTextContent(item),
                                        ast |-> modification(itemTextContent(item))]))
                  ELSE forEach(version, list, index + 1, acc)

extractModificationsFromProject(version, list) == forEach(version, list, 0, <<>>)

\* The messages of console.warn of the calls of parseModification
RECURSIVE extractWarnings(_, _)
extractWarnings(list, index) ==
    IF index >= Len(list) THEN <<>>
    ELSE (IF list[index + 1].link # <<>>
          THEN parseModification(itemTextContent(list[index + 1])).warns
          ELSE <<>>)
         \o extractWarnings(list, index + 1)

----------------------------------------------------------------------------
(* Inputs of the batch extraction *)

\* Largest number of <li> blocks of a project
MaxItems == 2

ItemTexts ==
    {<<"le", "II", "est", "abroge">>,
     <<"la", "seconde", "phrase", "du", "II", "est", "remplacee", "par", "<<", "x", ">>">>,
     <<"est", "remplacee", "par", "x">>,
     <<"le", "II">>,
     <<"x">>}

ItemLinks ==
    {<<>>,
     <<Link(<<<<"https://tricoteuses.fr/legifrance/articles/", "LEGIARTI", "0", "5">>>>,
            <<"article", "224">>)>>,
     <<Link(<<>>, <<"article", "224">>)>>}

ItemChoices == {Item(words, link) : words \in ItemTexts, link \in ItemLinks}

BatchInputs == UNION {[1..n -> ItemChoices] : n \in 0..MaxItems}

----------------------------------------------------------------------------
(* Batch extraction as a state machine *)

InitBatch ==
    /\ impl \in {"dom", "draft"}
    /\ items \in BatchInputs
    /\ pc = "extract"
    /\ blocks = <<>>
    /\ rawText = <<>>
    /\ ref = NoRef
    /\ compiled = <<>>
    /\ console = <<>>
    /\ doc = NoDoc
    /\ path = <<>>
    /\ i = 0
    /\ scope = <<>>
    /\ result = <<>>
    /\ error = <<>>
    /\ history = <<>>
    /\ calls = <<>>

\* extractModificationsFromProject of article-navigator.ts; new DOMParser()
\* throws where DOMParser is not defined
ExtractModifications_dom ==
    /\ pc = "extract"
    /\ impl = "dom"
    /\ \E defined \in BOOLEAN :
           IF defined
           THEN /\ blocks' = extractModificationsFromProject("dom", items)
                /\ console' = extractWarnings(items, 0)
                /\ pc' = "extracted"
                /\ UNCHANGED error
           ELSE /\ pc' = "thrown"
                /\ error' = <<[message |-> "ReferenceError: DOMParser is not defined"]>>
                /\ UNCHANGED <<blocks, console>>
    /\ UNCHANGED <<impl, ref, compiled, doc, path, i, scope, result,
                   history, rawText, items, calls>>

\* extractModificationsFromProject of the draft
ExtractModifications_draft ==
    /\ pc = "extract"
    /\ impl = "draft"
    /\ \E defined \in BOOLEAN :
           IF defined
           THEN /\ blocks' = extractModificationsFromProject("draft", items)
                /\ pc' = "extracted"
                /\ UNCHANGED error
           ELSE /\ pc' = "thrown"
                /\ error' = <<[message |-> "ReferenceError: DOMParser is not defined"]>>
                /\ UNCHANGED blocks
    /\ UNCHANGED <<impl, ref, compiled, console, doc, path, i, scope, result,
                   history, rawText, items, calls>>

NextBatch == ExtractModifications_dom \/ ExtractModifications_draft

SpecBatch == InitBatch /\ [][NextBatch]_vars

----------------------------------------------------------------------------
(* Properties of the batch extraction (checked under SpecBatch) *)

\* C16 (as claimed): the extraction returns one record per input block, in
\* the order of the blocks, whatever the blocks hold.
C16_OneRecordPerBlock ==
    pc = "extracted"
    => /\ Len(blocks) = Len(items)
       /\ \A k \in 1..Len(blocks) :
              /\ blocks[k].id = modId(k - 1)
              /\ blocks[k].rawText = itemTextContent(items[k])

\* The records of bs that are not the record of the k-th block
RecordsOfOthers(bs, k) == SelectSeq(bs, LAMBDA b : b.id # modId(k - 1))

\* C17: isolation. Whatever block stands in the place of the k-th block of
\* the batch (one that parses, one that does not, one without link), the
\* records of the other blocks are the same, in the same order.
C17_BlockIsolation ==
    pc = "extracted"
    => \A k \in 1..Len(items) : \A other \in ItemChoices :
           RecordsOfOthers(blocks, k)
           = RecordsOfOthers(
                 extractModificationsFromProject(impl, [items EXCEPT ![k] = other]), k)

\* C17 witness: the first block of the batch was not parsed and the second
\* block has its record, with its parse
C17_Witness ==
    /\ pc = "extracted"
    /\ Len(items) >= 2
    /\ items[1].text = <<"x">>
    /\ parseModification(itemTextContent(items[1])).value = <<>>
    /\ \E k \in 1..Len(blocks) :
           /\ blocks[k].id = modId(1)
           /\ blocks[k].rawText = itemTextContent(items[2])
           /\ blocks[k].ast # <<>>

----------------------------------------------------------------------------
(* Properties of the reference parser (checked under SpecParse) *)

Reverse(s) == [j \in 1..Len(s) |-> s[Len(s) + 1 - j]]

\* The atoms of the words k..(stop - 1) of the text, in the order of the words
RECURSIVE SurfaceAtoms(_, _, _)
SurfaceAtoms(t, k, stop) ==
    IF k >= stop THEN <<>>
    ELSE IF portion(t, k).ok
    THEN <<portion(t, k).value>> \o SurfaceAtoms(t, portion(t, k).pos, stop)
    ELSE IF division(t, k).ok
    THEN <<division(t, k).value>> \o SurfaceAtoms(t, k + 1, stop)
    ELSE SurfaceAtoms(t, k + 1, stop)

\* The atoms of a reference, those of the parent before those of the child
RECURSIVE ParentFirst(_)
ParentFirst(node) ==
    IF node.type = "parent-enfant"
    THEN ParentFirst(node.parent) \o ParentFirst(node.child)
    ELSE <<node>>

\* The nesting depth of a reference
RECURSIVE Depth(_)
Depth(node) ==
    IF node.type = "parent-enfant"
    THEN 1 + (IF Depth(node.parent) > Depth(node.child)
              THEN Depth(node.parent) ELSE Depth(node.child))
    ELSE 0

\* The reference that parseModification found in the text
ReferenceOf(parsed) == parsed[1].reference[1]

\* C21: in the reference parsed from "X du Y", at every depth, the parent
\* is the reference after the linking word and the child the one before it:
\* parents first, the atoms of the reference are the atoms of the text from
\* the last to the first. "le A du IV" is parent IV, child A, and "du dernier
\* alinea du II" is parent item II, child paragraph of ordinal -1.
C21_ParentIsOuter ==
    (pc = "parsed" /\ result # <<>> /\ result[1].reference # <<>>) =>
        /\ ParentFirst(ReferenceOf(result))
             = Reverse(SurfaceAtoms(rawText, 1, referenceGrammar(rawText, 1).pos))
        /\ startsWith(rawText, <<"le", "A", "du", "IV">>) =>
             /\ ReferenceOf(result).type = "parent-enfant"
             /\ ReferenceOf(result).parent
                  = Atom("item", <<>>, <<"I", "V">>, <<4>>, <<>>)
             /\ ReferenceOf(result).child
                  = Atom("item", <<>>, <<"A">>, <<1>>, <<>>)
        /\ startsWith(rawText, <<"du", "dernier", "alinea", "du", "II">>) =>
             /\ ReferenceOf(result).type = "parent-enfant"
             /\ ReferenceOf(result).parent
                  = Atom("item", <<>>, <<"I", "I">>, <<2>>, <<>>)
             /\ ReferenceOf(result).child
                  = Atom("alinea", <<>>, Dernier, <<-1>>, <<>>)

\* C21 witness: a composition of depth two was parsed
C21_Witness ==
    /\ pc = "parsed"
    /\ result # <<>>
    /\ result[1].reference # <<>>
    /\ Depth(ReferenceOf(result)) = 2

----------------------------------------------------------------------------
(* Ordinals from the parser to the navigator (checked under Spec) *)

\* The position, counted from 1, that an ordinal word names
NamedPosition(w) == IF w \in {"premier", "premiere"} THEN 1 ELSE 2

\* C22 (as claimed): "dernier" is index -1, "premier" index 1 and "second"
\* index 2, and a portion step that carries the index of "premier" or of
\* "second" selects the first or the second element of the scope: the block
\* for a paragraph-unit step, and a sentence that exists for a sentence-unit
\* step.
C22_OneBasedOrdinals ==
    [][ /\ \A w \in {"dernier", "derniere"} : ordinalIndex(w) = -1
        /\ \A w \in OrdinalWords \ {"dernier", "derniere"} :
             (AtPortionStep /\ OrdinalOfStep(path[i]) = <<ordinalIndex(w)>>)
             => /\ (IsParagraphUnit(path[i]) /\ NamedPosition(w) <= Len(ScopeBlocks))
                   => (pc' = "nav" /\ scope' = <<ScopeBlocks[NamedPosition(w)]>>)
                /\ (IsSentenceUnit(path[i]) /\ NamedPosition(w) <= Len(ScopeSentences))
                   => pc' = "nav" ]_vars

----------------------------------------------------------------------------
(* The step compiled from an item (checked under SpecCompile) *)

\* The identifier a step carries: its num (cheerio NavigationStep) or its
\* identifier (DOM NavigationStep)
StepIdentifier(step) ==
    IF "num" \in DOMAIN step THEN step.num
    ELSE IF "identifier" \in DOMAIN step THEN step.identifier
    ELSE <<>>

\* C25 (as claimed): each step compiled from an item node is a division step
\* that carries the marker of the item as its identifier, never a portion
\* step.
C25_ItemIsDivisionStep ==
    pc = "compiled" =>
        LET t == CompiledSteps
        IN  \A m \in 1..Len(t) :
                LET node == NodeAt(ref, t[m].at)
                IN  node.type = "item" =>
                        /\ t[m].step.type = "division"
                        /\ StepIdentifier(t[m].step) = node.num

----------------------------------------------------------------------------
(* The scope along a navigation (checked under Spec) *)

\* A step of the navigation has been applied without a throw
StepApplied == pc = "nav" /\ i <= Len(path) /\ pc' = "nav"

\* C26 (as claimed): the navigation starts with the whole document as scope;
\* after every step the scope is the scope before the step or one block
\* contained in it; a texte or article step leaves the scope as it was.
C26_ScopeNarrows ==
    [][ /\ (pc = "idle" /\ pc' = "nav") => scope' = <<Body>>
        /\ StepApplied =>
             /\ \/ scope' = scope
                \/ /\ Len(scope') = 1
                   /\ \E e \in 1..Len(scope) : IsInside(doc, scope'[1], scope[e])
             /\ path[i].type \in {"texte", "article"} => scope' = scope ]_vars

\* Every block of the scope after a step is the scope before the step or a
\* block contained in it: the scope does not widen and does not leave the
\* scope before the step (a selection without element is allowed)
ScopeNeverOutside ==
    [][ StepApplied =>
            \A b \in 1..Len(scope') :
                \E e \in 1..Len(scope) : IsInside(doc, scope'[b], scope[e]) ]_vars

----------------------------------------------------------------------------
(* The value function of the chain of `modification`, applied to the
   results of its members *)

\* Largest cursor of the results
MaxStop == 6

\* The span inner lies within the span outer
Within(inner, outer) == outer.start <= inner.start /\ inner.stop <= outer.stop

\* The results the chain hands to its value function, each node with its
\* position, the span of the input its parser consumed.  The member
\* `reference` returned an atom, or the parent-child node of "child du
\* parent", which spans its child and its parent; the member `action`
\* returned a kind with no citation or with one citation in its span; the
\* optional member returned null (<<>>) or a citation.  The members
\* succeeded in order, each from the cursor the one before it left (or
\* later, the input between two members being skipped)
ChainResults ==
    LET Spans == {sp \in [start : 1..MaxStop, stop : 1..MaxStop] : sp.start < sp.stop}
        Citation(sp) == [type |-> "citation", content |-> <<"x">>, position |-> sp]
        Targets ==
            {[position |-> sp] @@ ItemII : sp \in Spans}
            \cup {[position |-> q[1]]
                     @@ ParentChild([position |-> q[3]] @@ ItemII,
                                    [position |-> q[2]] @@ AlineaDernier) :
                     q \in {r \in Spans \X Spans \X Spans :
                               /\ Within(r[2], r[1])
                               /\ Within(r[3], r[1])
                               /\ r[2].stop <= r[3].start}}
        Actions ==
            {[action |-> "MODIFICATION", citations |-> <<>>, position |-> sp] :
                sp \in Spans}
            \cup {[action |-> "MODIFICATION", citations |-> <<Citation(q[2])>>,
                    position |-> q[1]] :
                     q \in {r \in Spans \X Spans :
                               Within(r[2], r[1]) /\ r[1].start < r[2].start}}
    IN  {<<q[1], q[2], <<>> >> :
            q \in {r \in Targets \X Actions :
                      r[1].position.stop <= r[2].position.start}}
        \cup {<<q[1], q[2], <<Citation(q[3])>> >> :
                 q \in {r \in Targets \X Actions \X Spans :
                           /\ r[1].position.stop <= r[2].position.start
                           /\ r[2].position.stop <= r[3].start}}

InitChain ==
    /\ impl = "draft"
    /\ calls \in ChainResults
    /\ pc = "chain"
    /\ result = <<>>
    /\ items = <<>>
    /\ blocks = <<>>
    /\ rawText = <<>>
    /\ ref = NoRef
    /\ compiled = <<>>
    /\ console = <<>>
    /\ doc = NoDoc
    /\ path = <<>>
    /\ i = 0
    /\ scope = <<>>
    /\ error = <<>>
    /\ history = <<>>

\* The chain calls its value function with the results of its members
ChainValue ==
    /\ pc = "chain"
    /\ result' = <<modificationValue(calls)>>
    /\ pc' = "valued"
    /\ UNCHANGED <<impl, ref, compiled, console, doc, path, i, scope, error,
                   history, rawText, items, blocks, calls>>

SpecChain == InitChain /\ [][ChainValue]_vars

\* The nodes below a node, read from the node: the target, the action and
\* the citation of a modification, the parent and the child of a
\* parent-child node, the citations of an action
RECURSIVE Descendants(_)
Descendants(node) ==
    LET children ==
            IF "type" \in DOMAIN node /\ node.type = "modification"
            THEN <<node.target, node.action>> \o node.newContent
            ELSE IF "type" \in DOMAIN node /\ node.type = "parent-enfant"
            THEN <<node.parent, node.child>>
            ELSE IF "citations" \in DOMAIN node THEN node.citations
            ELSE <<>>
        below[k \in 0..Len(children)] ==
            IF k = 0 THEN <<>>
            ELSE below[k - 1] \o <<children[k]>> \o Descendants(children[k])
    IN  below[Len(children)]


----------------------------------------------------------------------------
(* The cursor after a failure (checked under SpecParse) *)

\* C23: a parser that fails leaves the cursor where it was before the
\* attempt, whatever the parser (of the grammar, or a sequence, alternative,
\* optional or repeat) and wherever the cursor was; and when the reference
\* parser failed in parseModification, the action parser that was tried next
\* started at the beginning of the text.
C23_FailureRestoresCursor ==
    /\ (pc = "attempted" /\ ~history[1].outcome.ok)
       => history[1].outcome.pos = history[1].before
    /\ (pc = "parsed" /\ calls = <<"reference", "action">>)
       => /\ reference(rawText, 1).pos = 1
          /\ result = discriminate(IF action(rawText, 1).ok
                                   THEN <<action(rawText, 1).value>> ELSE <<>>,
                                   calls).value

\* C23 witness: a sequence failed at a later member, after its first member
\* had consumed input
C23_Witness ==
    /\ pc = "attempted"
    /\ history[1].parser.kind = "sequence"
    /\ ~history[1].outcome.ok
    /\ apply(history[1].parser.of[1], rawText, history[1].before).ok
    /\ apply(history[1].parser.of[1], rawText, history[1].before).pos > history[1].before

----------------------------------------------------------------------------
(* applyModificationAndGenerateDiff *)

\* extractHTML(element): element.outerHTML, the element with its tags
extractHTML(d, e) ==
    IF e = Body THEN <<"<body>">> \o innerHTML(d, e) \o <<"</body>">>
    ELSE <<"<p>">> \o innerHTML(d, e) \o <<"</p>">>

\* return '<p>Nouveau contenu TODO</p>'
NouveauContenu == <<"<p>", "Nouveau contenu TODO", "</p>">>

\* originalCitations is <<>> when the action has none (undefined, or an empty array)
buildNewHTMLFromCitations(oldHTML, originalCitations) ==
    IF originalCitations = <<>> THEN oldHTML ELSE NouveauContenu

\* Mutant: an action of unknown kind leaves the content as it is
newHTML_defaultOld(oldHTML, act) ==
    CASE act.action = "MODIFICATION" ->
            Ok(buildNewHTMLFromCitations(oldHTML, act.originalCitations))
      [] act.action = "CREATION" ->
            Ok(oldHTML \o buildNewHTMLFromCitations(<<>>, act.originalCitations))
      [] act.action = "SUPPRESSION" -> Ok(<<>>)
      [] act.action = "CREATION_OU_MODIFICATION" ->
            Ok(buildNewHTMLFromCitations(oldHTML, act.originalCitations))
      [] OTHER -> Ok(oldHTML)

\* switch (modification.ast.action.action): the new HTML, or the throw of
\* the default case
newHTML(oldHTML, act) ==
    CASE act.action = "MODIFICATION" ->
            Ok(buildNewHTMLFromCitations(oldHTML, act.originalCitations))
      [] act.action = "CREATION" ->
            Ok(oldHTML \o buildNewHTMLFromCitations(<<>>, act.originalCitations))
      [] act.action = "SUPPRESSION" -> Ok(<<>>)
      [] act.action = "CREATION_OU_MODIFICATION" ->
            Ok(buildNewHTMLFromCitations(oldHTML, act.originalCitations))
      [] OTHER -> Throw([message |-> "Unknown action", action |-> act.action])

\* The function handed to applyModificationAndGenerateDiff: what it returns
\* is known by its arguments only
generateHtmlSplitDiff(oldHTML, newHTML_) == [diff |-> <<oldHTML, newHTML_>>]

\* The two tests at the head of applyModificationAndGenerateDiff: the steps
\* of the target path, or the throw
targetSteps(block) ==
    IF block.ast = <<>> THEN Throw([message |-> "Modification has no AST"])
    ELSE IF block.ast[1].targetPath = <<>>
    THEN Throw([message |-> "Modification has no target path"])
    ELSE Ok(block.ast[1].targetPath[1].steps)

----------------------------------------------------------------------------
(* Inputs of applyModificationAndGenerateDiff *)

ActionKinds == {"MODIFICATION", "CREATION", "SUPPRESSION", "CREATION_OU_MODIFICATION"}

\* The actions: each kind, and a kind that is not one of them, without
\* citation and with one
ApplyActions ==
    {[action |-> kind, originalCitations |-> cs] :
        kind \in ActionKinds \cup {"AUTRE"}, cs \in {<<>>, << <<"x">> >>}}

\* The target paths: none, no step, and steps that succeed or fail
\* according to the article
ApplyPaths ==
    {<<>>, <<[steps |-> <<>>]>>,
     <<[steps |-> <<DomStep("division", <<"I">>, Undefined, <<>>)>>]>>,
     <<[steps |-> <<DomStep("portion", <<>>, Number(2), <<>>)>>]>>,
     <<[steps |-> <<DomStep("division", <<"I">>, Undefined, <<>>),
                    DomStep("portion", <<>>, Word("last"), <<>>)>>]>>}

ApplyAsts ==
    {<<>>} \cup {<<[action |-> act, reference |-> <<>>, targetPath |-> tp]>> :
                    act \in ApplyActions, tp \in ApplyPaths}

ModificationBlock(ast) ==
    [id |-> modId(0), articleId |-> <<"LEGIARTI", "0", "5">>,
     articleTitle |-> <<"article", "224">>, rawText |-> <<>>, ast |-> ast]

----------------------------------------------------------------------------
(* applyModificationAndGenerateDiff as a state machine *)

InitApply ==
    /\ impl = "dom"
    /\ doc \in Docs
    /\ blocks \in {<<ModificationBlock(ast)>> : ast \in ApplyAsts}
    /\ pc = "idle"
    /\ ref = NoRef
    /\ compiled = <<>>
    /\ console = <<>>
    /\ path = <<>>
    /\ i = 0
    /\ scope = <<>>
    /\ result = <<>>
    /\ error = <<>>
    /\ history = <<>>
    /\ rawText = <<>>
    /\ items = <<>>
    /\ calls = <<>>

\* The call, up to the first iteration of the loop of locate: the two tests,
\* then new ArticleNavigator(articleHTML), which throws where DOMParser is
\* not defined
Apply ==
    /\ pc = "idle"
    /\ LET steps == targetSteps(blocks[1])
       IN  \E defined \in BOOLEAN :
               IF steps.threw \/ ~defined
               THEN /\ pc' = "thrown"
                    /\ error' = <<IF steps.threw THEN steps.error
                                  ELSE DOMParserNotAvailable>>
                    /\ UNCHANGED <<path, i, scope>>
               ELSE /\ pc' = "nav"
                    /\ path' = steps.value
                    /\ i' = 1
                    /\ scope' = initialScope
                    /\ UNCHANGED error
    /\ UNCHANGED <<impl, ref, compiled, console, doc, result, history, rawText,
                   items, blocks, calls>>

\* After locate returned: the old HTML of the element and the new HTML
BuildNewHTML ==
    /\ pc = "nav"
    /\ i > Len(path)
    /\ LET oldHTML == extractHTML(doc, scope[1])
           built == newHTML(oldHTML, blocks[1].ast[1].action)
       IN  IF built.threw
           THEN /\ pc' = "thrown"
                /\ error' = <<built.error>>
                /\ UNCHANGED history
           ELSE /\ pc' = "diff"
                /\ history' = <<[oldHTML |-> oldHTML, newHTML |-> built.value]>>
                /\ UNCHANGED error
    /\ UNCHANGED <<impl, ref, compiled, console, doc, path, i, scope, result,
                   rawText, items, blocks, calls>>

\* return generateHtmlSplitDiff(oldHTML, newHTML)
GenerateDiff ==
    /\ pc = "diff"
    /\ calls' = Append(calls, history[1])
    /\ result' = <<generateHtmlSplitDiff(history[1].oldHTML, history[1].newHTML)>>
    /\ pc' = "done"
    /\ UNCHANGED <<impl, ref, compiled, console, doc, path, i, scope, error,
                   history, rawText, items, blocks>>

NextApply == Apply \/ Step_dom \/ BuildNewHTML \/ GenerateDiff

SpecApply == InitApply /\ [][NextApply]_vars

----------------------------------------------------------------------------
(* Properties of applyModificationAndGenerateDiff (checked under SpecApply) *)

\* The action of the modification, when it has an AST
ActionOf(block) == block.ast[1].action

\* Every word of every citation is in the content
HoldsCitations(content, quoted) ==
    \A c \in 1..Len(quoted) : \A w \in 1..Len(quoted[c]) :
        \E k \in 1..Len(content) : content[k] = quoted[c][w]

\* C27 (as claimed): the diff function is called with the old fragment, the
\* outer HTML of the located element, and with the new content of the action
\* kind: nothing for SUPPRESSION, the old fragment followed by the content
\* of the citations for CREATION, the content of the citations for
\* MODIFICATION and CREATION_OU_MODIFICATION, and the old fragment when
\* these have no citation; what is returned is what the diff function gave.
C27_NewContentByKind ==
    pc = "done" =>
        LET old == calls[1].oldHTML
            new == calls[1].newHTML
            act == ActionOf(blocks[1])
        IN  /\ old = extractHTML(doc, scope[1])
            /\ result = <<generateHtmlSplitDiff(old, new)>>
            /\ act.action = "SUPPRESSION" => new = <<>>
            /\ act.action = "CREATION" =>
                   /\ IsPrefix(old, new)
                   /\ HoldsCitations(SubSeq(new, Len(old) + 1, Len(new)),
                                     act.originalCitations)
            /\ act.action \in {"MODIFICATION", "CREATION_OU_MODIFICATION"} =>
                   IF act.originalCitations = <<>> THEN new = old
                   ELSE HoldsCitations(new, act.originalCitations)

\* The modification cannot be applied: it has no AST, no target path, or an
\* action of unknown kind
Unfit(block) ==
    \/ block.ast = <<>>
    \/ block.ast[1].targetPath = <<>>
    \/ ActionOf(block).action \notin ActionKinds

\* C28: the diff function is called at most once, and only once every step
\* of the target path has been applied, for a modification that has an AST,
\* a target path and an action of a known kind; a call that ends with a
\* throw, as every call for a modification that cannot be applied does, has
\* its error and has not called the diff function.
C28_DiffOnlyAfterNavigation ==
    /\ Len(calls) <= 1
    /\ calls # <<>> => (~Unfit(blocks[1]) /\ pc = "done" /\ i > Len(path))
    /\ pc = "thrown" => (calls = <<>> /\ error # <<>>)
    /\ (pc \in {"diff", "done"}) => ~Unfit(blocks[1])

\* C28 witness: the navigation succeeded after a step and the call ended
\* with the throw of an unknown action kind, the diff function not called
C28_Witness ==
    /\ pc = "thrown"
    /\ blocks[1].ast # <<>>
    /\ blocks[1].ast[1].targetPath # <<>>
    /\ i > Len(path)
    /\ Len(path) >= 1
    /\ error[1].message = "Unknown action"
    /\ calls = <<>>


============================================================================
